---- MODULE Spec2Model ----
(***************************************************************************)
(* Texture transform tool (TextureTransformModal), texture layer manager   *)
(* (TextureLayerManager) and their host (GlbTextureSwapTester).            *)
(*                                                                         *)
(* Numbers.  JavaScript doubles are modelled in fixed point:               *)
(*   lengths        in 1/PX of a canvas pixel,                             *)
(*   scaleX, scaleY in 1/ScaleOne,                                         *)
(*   rotationDeg    in whole degrees,                                      *)
(*   baseScale      as the exact fraction n/d (length units per image      *)
(*                  pixel).                                                *)
(* The image sizes of the model are chosen so that every quotient of       *)
(* initializeTextureTransform is exact on this grid.                       *)
(***************************************************************************)
EXTENDS Integers, Sequences, FiniteSets, Bags, TLC

\* ------------------------------------------------------------------ bounds
\* user inputs (clicks, pointer-downs) and host re-renders in one run
MaxInputs == 4

\* ------------------------------------------------------------------ units
PX == 80
ScaleOne == 1000
MinScale == ScaleOne \div 10
MaxScale == 5 * ScaleOne
NaNScale == 0 - ScaleOne
CanvasWidth == 500 * PX
CanvasHeight == 333 * PX
ExportWidth == 2048

Null == [null |-> TRUE]
NoDrag == "null"

Min(a, b) == IF a <= b THEN a ELSE b
Max(a, b) == IF a >= b THEN a ELSE b
Abs(a) == IF a < 0 THEN 0 - a ELSE a

\* ------------------------------------------------------------------ Math.*
RECURSIVE SqrtIter(_, _, _)
SqrtIter(n, lo, hi) ==
    IF lo >= hi THEN lo
    ELSE LET mid == (lo + hi + 1) \div 2
         IN  IF mid * mid <= n THEN SqrtIter(n, mid, hi)
                               ELSE SqrtIter(n, lo, mid - 1)

\* Math.sqrt, rounded down to the length grid
MathSqrt(n) == SqrtIter(n, 0, 46340)

\* atan of a/b in degrees for 0 <= a <= b, b > 0: exact at a = 0 and a = b,
\* interpolated in between
AtanDeg(a, b) == (45 * a) \div b

AtanQuadrant(dy, dx) ==
    IF dy <= dx THEN AtanDeg(dy, dx) ELSE 90 - AtanDeg(dx, dy)

\* Math.atan2(dy, dx) * 180 / Math.PI; Math.atan2(0, 0) is 0
MathAtan2Deg(dy, dx) ==
    IF dx = 0 /\ dy = 0 THEN 0
    ELSE IF dx >= 0 /\ dy >= 0 THEN AtanQuadrant(dy, dx)
    ELSE IF dx < 0 /\ dy >= 0 THEN 180 - AtanQuadrant(dy, 0 - dx)
    ELSE IF dx < 0 /\ dy < 0 THEN AtanQuadrant(0 - dy, 0 - dx) - 180
    ELSE 0 - AtanQuadrant(0 - dy, dx)

\* the clamp without its lower limit: Math.min(5, snap * (cur / start))
ClampedScaleNoFloor(snap, cur, start) ==
    IF snap = NaNScale THEN NaNScale
    ELSE IF start = 0 THEN (IF cur = 0 THEN NaNScale ELSE MaxScale)
    ELSE Min(MaxScale, (snap * cur) \div start)

\* Math.max(0.1, Math.min(5, snap * (cur / start))): a zero divisor gives
\* Infinity (clamped to 5) or, for 0/0, NaN (which both Math.min and
\* Math.max pass through)
ClampedScale(snap, cur, start) ==
    IF snap = NaNScale THEN NaNScale
    ELSE IF start = 0 THEN (IF cur = 0 THEN NaNScale ELSE MaxScale)
    ELSE Max(MinScale, Min(MaxScale, (snap * cur) \div start))

\* ------------------------------------------------------------------ images
PathSrc(i) == [kind |-> "path", index |-> i]
DataSrc(bake) == [kind |-> "data", bake |-> bake]

\* exportH = Math.round(exportW * (innerH / innerW))
ExportHeight(sel) ==
    LET innerW == (sel.width * 8) \div 10
        innerH == (sel.height * 8) \div 10
    IN  (2 * ExportWidth * innerH + innerW) \div (2 * innerW)

\* natural size of the image behind a source: the two asset files, or the
\* canvas exportTextureFromSelection drew
ImageWidth(src) ==
    IF src.kind = "path" THEN (IF src.index = 1 THEN 400 ELSE 300)
    ELSE ExportWidth

ImageHeight(src) ==
    IF src.kind = "path" THEN (IF src.index = 1 THEN 200 ELSE 300)
    ELSE ExportHeight(src.bake.selectionRect)

LoadedImage(src) ==
    [src |-> src, width |-> ImageWidth(src), height |-> ImageHeight(src)]

\* ------------------------------------------------------------------ transform
InitialTransform ==
    [translateX |-> 0, translateY |-> 0,
     scaleX |-> ScaleOne, scaleY |-> ScaleOne, rotationDeg |-> 0]

InitialSelectionRect == [x |-> 0, y |-> 0, width |-> 0, height |-> 0]

InitialBaseScale == [n |-> PX, d |-> 1]

\* Math.min(dashedW / imgW, dashedH / imgH)
FitScale(dashedW, dashedH, imgW, imgH) ==
    IF dashedW * imgH <= dashedH * imgW
    THEN [n |-> dashedW, d |-> imgW]
    ELSE [n |-> dashedH, d |-> imgH]

DashedBox(imgW, imgH, canvasWidth, canvasHeight) ==
    LET padding == canvasWidth \div 100
        availW == ((canvasWidth - padding * 2) * 6) \div 10
        availH == ((canvasHeight - padding * 2) * 6) \div 10
    IN  IF imgW * canvasHeight > canvasWidth * imgH
        THEN LET h == (availW * imgH) \div imgW
             IN  IF h > availH
                 THEN [w |-> (availH * imgW) \div imgH, h |-> availH]
                 ELSE [w |-> availW, h |-> h]
        ELSE LET w == (availH * imgW) \div imgH
             IN  IF w > availW
                 THEN [w |-> availW, h |-> (availW * imgH) \div imgW]
                 ELSE [w |-> w, h |-> availH]

\* a fit that takes the base scale from the outer selection rect
initializeTextureTransformOuterFit(img, canvasWidth, canvasHeight) ==
    LET dashed == DashedBox(img.width, img.height, canvasWidth, canvasHeight)
        solidW == (dashed.w * 10) \div 8
        solidH == (dashed.h * 10) \div 8
        solidX == (canvasWidth - solidW) \div 2
        solidY == (canvasHeight - solidH) \div 2
        dashedX == solidX + solidW \div 10
        dashedY == solidY + solidH \div 10
    IN  [selectionRect |-> [x |-> solidX, y |-> solidY,
                            width |-> solidW, height |-> solidH],
         baseScale |-> FitScale(solidW, solidH, img.width, img.height),
         transform |-> [translateX |-> dashedX + dashed.w \div 2,
                        translateY |-> dashedY + dashed.h \div 2,
                        scaleX |-> ScaleOne, scaleY |-> ScaleOne,
                        rotationDeg |-> 0]]

\* the selection rect, base scale and transform the function stores
initializeTextureTransform(img, canvasWidth, canvasHeight) ==
    LET dashed == DashedBox(img.width, img.height, canvasWidth, canvasHeight)
        solidW == (dashed.w * 10) \div 8
        solidH == (dashed.h * 10) \div 8
        solidX == (canvasWidth - solidW) \div 2
        solidY == (canvasHeight - solidH) \div 2
        dashedX == solidX + solidW \div 10
        dashedY == solidY + solidH \div 10
    IN  [selectionRect |-> [x |-> solidX, y |-> solidY,
                            width |-> solidW, height |-> solidH],
         baseScale |-> FitScale(dashed.w, dashed.h, img.width, img.height),
         transform |-> [translateX |-> dashedX + dashed.w \div 2,
                        translateY |-> dashedY + dashed.h \div 2,
                        scaleX |-> ScaleOne, scaleY |-> ScaleOne,
                        rotationDeg |-> 0]]

\* ------------------------------------------------------------------ gestures
HandleSize == 12 * PX
EdgeHandleSize == 8 * PX
RotateHandleOffset == 30 * PX
RotateHandleReach == 15 * PX

Kinds == {"pan", "corner-tl", "corner-tr", "corner-bl", "corner-br",
          "edge-top", "edge-bottom", "edge-left", "edge-right", "rotate"}

\* layout of the canvas element on screen (getBoundingClientRect): the canvas
\* is shown at half its backing resolution
BoundingClientRect ==
    [left |-> 100 * PX, top |-> 50 * PX,
     width |-> CanvasWidth \div 2, height |-> CanvasHeight \div 2]

\* the pointer position in display pixels, without the canvas's scale
displayToCanvasUnscaled(e, rect) ==
    [x |-> e.clientX - rect.left, y |-> e.clientY - rect.top]

\* display coordinates -> canvas pixel coordinates
displayToCanvas(e, rect) ==
    [x |-> ((e.clientX - rect.left) * CanvasWidth) \div rect.width,
     y |-> ((e.clientY - rect.top) * CanvasHeight) \div rect.height]

\* a hit test that tries the edge bands before the corner handles
HitTestEdgesFirst(x, y, sel) ==
    LET nearCorner(cx, cy) ==
            Abs(x - cx) < HandleSize /\ Abs(y - cy) < HandleSize
        midX == sel.x + sel.width \div 2
        midY == sel.y + sel.height \div 2
        rotX == sel.x + sel.width \div 2
        rotY == sel.y - RotateHandleOffset
    IN  IF Abs(x - midX) * 2 < sel.width
           /\ Abs(y - sel.y) < EdgeHandleSize THEN "edge-top"
        ELSE IF Abs(x - midX) * 2 < sel.width
                /\ Abs(y - (sel.y + sel.height)) < EdgeHandleSize
             THEN "edge-bottom"
        ELSE IF Abs(x - sel.x) < EdgeHandleSize
                /\ Abs(y - midY) * 2 < sel.height THEN "edge-left"
        ELSE IF Abs(x - (sel.x + sel.width)) < EdgeHandleSize
                /\ Abs(y - midY) * 2 < sel.height THEN "edge-right"
        ELSE IF nearCorner(sel.x, sel.y) THEN "corner-tl"
        ELSE IF nearCorner(sel.x + sel.width, sel.y) THEN "corner-tr"
        ELSE IF nearCorner(sel.x, sel.y + sel.height) THEN "corner-bl"
        ELSE IF nearCorner(sel.x + sel.width, sel.y + sel.height)
             THEN "corner-br"
        ELSE IF Abs(x - rotX) < RotateHandleReach
                /\ Abs(y - rotY) < RotateHandleReach THEN "rotate"
        ELSE "pan"

\* first match wins: corners, edges, rotation handle, pan
HitTest(x, y, sel) ==
    LET nearCorner(cx, cy) ==
            Abs(x - cx) < HandleSize /\ Abs(y - cy) < HandleSize
        midX == sel.x + sel.width \div 2
        midY == sel.y + sel.height \div 2
        rotX == sel.x + sel.width \div 2
        rotY == sel.y - RotateHandleOffset
    IN  IF nearCorner(sel.x, sel.y) THEN "corner-tl"
        ELSE IF nearCorner(sel.x + sel.width, sel.y) THEN "corner-tr"
        ELSE IF nearCorner(sel.x, sel.y + sel.height) THEN "corner-bl"
        ELSE IF nearCorner(sel.x + sel.width, sel.y + sel.height)
             THEN "corner-br"
        ELSE IF Abs(x - midX) * 2 < sel.width
                /\ Abs(y - sel.y) < EdgeHandleSize THEN "edge-top"
        ELSE IF Abs(x - midX) * 2 < sel.width
                /\ Abs(y - (sel.y + sel.height)) < EdgeHandleSize
             THEN "edge-bottom"
        ELSE IF Abs(x - sel.x) < EdgeHandleSize
                /\ Abs(y - midY) * 2 < sel.height THEN "edge-left"
        ELSE IF Abs(x - (sel.x + sel.width)) < EdgeHandleSize
                /\ Abs(y - midY) * 2 < sel.height THEN "edge-right"
        ELSE IF Abs(x - rotX) < RotateHandleReach
                /\ Abs(y - rotY) < RotateHandleReach THEN "rotate"
        ELSE "pan"

\* d > 0.01 (pixels)
AboveEpsilon(d) == d * 100 > PX

\* the distance along the axes instead of the straight line
DistanceAlongAxes(x1, y1, x2, y2) == Abs(x1 - x2) + Abs(y1 - y2)

Distance(x1, y1, x2, y2) ==
    MathSqrt((x1 - x2) * (x1 - x2) + (y1 - y2) * (y1 - y2))

\* a move whose top and bottom edge drags scale both axes
MovedTransformUniformEdge(kind, start, x, y, sel) ==
    LET snap == start.transform
        centerX == sel.x + sel.width \div 2
        centerY == sel.y + sel.height \div 2
    IN  IF kind = "pan"
        THEN [snap EXCEPT !.translateX = @ + (x - start.x),
                          !.translateY = @ + (y - start.y)]
        ELSE IF kind \in {"corner-tl", "corner-tr", "corner-bl", "corner-br"}
        THEN LET startDist == Distance(start.x, start.y, centerX, centerY)
                 currentDist == Distance(x, y, centerX, centerY)
             IN  IF AboveEpsilon(startDist)
                 THEN [snap EXCEPT
                         !.scaleX = ClampedScale(@, currentDist, startDist),
                         !.scaleY = ClampedScale(@, currentDist, startDist)]
                 ELSE snap
        ELSE IF kind \in {"edge-top", "edge-bottom"}
        THEN LET startDistY == Abs(start.y - centerY)
                 currentDistY == Abs(y - centerY)
             IN  IF AboveEpsilon(startDistY)
                 THEN [snap EXCEPT
                         !.scaleX = ClampedScale(@, currentDistY, startDistY),
                         !.scaleY = ClampedScale(@, currentDistY, startDistY)]
                 ELSE snap
        ELSE IF kind \in {"edge-left", "edge-right"}
        THEN LET startDistX == Abs(start.x - centerX)
                 currentDistX == Abs(x - centerX)
             IN  IF AboveEpsilon(currentDistX)
                 THEN [snap EXCEPT
                         !.scaleX = ClampedScale(@, currentDistX, startDistX)]
                 ELSE snap
        ELSE IF kind = "rotate"
        THEN LET startAngle == MathAtan2Deg(start.y - centerY, start.x - centerX)
                 currentAngle == MathAtan2Deg(y - centerY, x - centerX)
             IN  [snap EXCEPT !.rotationDeg = @ + (currentAngle - startAngle)]
        ELSE snap

\* the transform handleMouseMove passes to setTextureTransform
MovedTransform(kind, start, x, y, sel) ==
    LET snap == start.transform
        centerX == sel.x + sel.width \div 2
        centerY == sel.y + sel.height \div 2
    IN  IF kind = "pan"
        THEN [snap EXCEPT !.translateX = @ + (x - start.x),
                          !.translateY = @ + (y - start.y)]
        ELSE IF kind \in {"corner-tl", "corner-tr", "corner-bl", "corner-br"}
        THEN LET startDist == Distance(start.x, start.y, centerX, centerY)
                 currentDist == Distance(x, y, centerX, centerY)
             IN  IF AboveEpsilon(startDist)
                 THEN [snap EXCEPT
                         !.scaleX = ClampedScale(@, currentDist, startDist),
                         !.scaleY = ClampedScale(@, currentDist, startDist)]
                 ELSE snap
        ELSE IF kind \in {"edge-top", "edge-bottom"}
        THEN LET startDistY == Abs(start.y - centerY)
                 currentDistY == Abs(y - centerY)
             IN  IF AboveEpsilon(startDistY)
                 THEN [snap EXCEPT
                         !.scaleY = ClampedScale(@, currentDistY, startDistY)]
                 ELSE snap
        ELSE IF kind \in {"edge-left", "edge-right"}
        THEN LET startDistX == Abs(start.x - centerX)
                 currentDistX == Abs(x - centerX)
             IN  IF AboveEpsilon(currentDistX)
                 THEN [snap EXCEPT
                         !.scaleX = ClampedScale(@, currentDistX, startDistX)]
                 ELSE snap
        ELSE IF kind = "rotate"
        THEN LET startAngle == MathAtan2Deg(start.y - centerY, start.x - centerX)
                 currentAngle == MathAtan2Deg(y - centerY, x - centerX)
             IN  [snap EXCEPT !.rotationDeg = @ + (currentAngle - startAngle)]
        ELSE snap

\* ------------------------------------------------------------------ scene
\* the first two of the sixteen recognised map types, in detection order
MapTypeOrder == <<"map", "normalMap">>
MapTypes == {"map", "normalMap"}
Materials == {"matA", "matB"}
Meshes == {"frame", "print"}
SceneIds == {1, 2}
Variants == {"mapOnly", "allKinds"}

\* a texture object: uid is its identity, image what it shows
GltfTexture(n) == [uid |-> n, image |-> [kind |-> "bitmap"]]
TestTexture(i) == [uid |-> 0 - i, image |-> [kind |-> "img", src |-> PathSrc(i)]]

\* the models GLTFLoader can deliver: scene 1 is a frame (colour and normal
\* map) around a print (colour map); scene 2 is a frame with a normal map
\* only; scene 3 has the materials of scene 1, the print comes first in the
\* traversal and carries the frame's material as its second material
SceneMeshOrder(s) ==
    IF s = 1 THEN <<"frame", "print">>
    ELSE IF s = 2 THEN <<"frame">>
    ELSE <<"print", "frame">>

SceneMeshMaterial(s) ==
    [m \in Meshes |->
        IF m = "frame" THEN <<"matA">>
        ELSE IF s = 1 THEN <<"matB">>
        ELSE IF s = 2 THEN << >>
        ELSE <<"matB", "matA">>]

SceneMaps(s) ==
    [mat \in Materials |-> [t \in MapTypes |->
        IF s # 2 /\ mat = "matA" /\ t = "map" THEN GltfTexture(1)
        ELSE IF s # 2 /\ mat = "matA" /\ t = "normalMap" THEN GltfTexture(2)
        ELSE IF s # 2 /\ mat = "matB" /\ t = "map" THEN GltfTexture(3)
        ELSE IF s = 2 /\ mat = "matA" /\ t = "normalMap" THEN GltfTexture(1)
        ELSE Null]]

\* the models of the scan specification
ScanScenes == {1, 2, 3}

FirstFreeUid == 4

\* the material the host classifies as the print surface
IsPrint(mat) == mat = "matB"

\* (material index, map type) pairs of one mesh in forEach order
MeshSlots(mesh, mats) ==
    [i \in 1..(Len(mats) * Len(MapTypeOrder)) |->
        [mesh |-> mesh,
         materialIndex |-> (i - 1) \div Len(MapTypeOrder),
         mapType |-> MapTypeOrder[((i - 1) % Len(MapTypeOrder)) + 1]]]

RECURSIVE TraversalOrder(_, _)
TraversalOrder(meshOrder, meshMat) ==
    IF meshOrder = << >> THEN << >>
    ELSE MeshSlots(Head(meshOrder), meshMat[Head(meshOrder)])
         \o TraversalOrder(Tail(meshOrder), meshMat)

\* a scan that numbers the layers of every mesh by their material index
RECURSIVE DetectLayersIndexIds(_, _, _, _, _)
DetectLayersIndexIds(cands, meshMat, maps, variant, layerIdCounter) ==
    IF cands = << >> THEN << >>
    ELSE LET c == Head(cands)
             mat == meshMat[c.mesh][c.materialIndex + 1]
             detected ==
                 /\ maps[mat][c.mapType] # Null
                 /\ \/ variant = "allKinds"
                    \/ c.mapType = "map" /\ IsPrint(mat)
         IN  IF detected
             THEN <<[id |-> c.materialIndex, mesh |-> c.mesh,
                     materialIndex |-> c.materialIndex,
                     mapType |-> c.mapType, material |-> mat]>>
                  \o DetectLayersIndexIds(Tail(cands), meshMat, maps, variant,
                                          layerIdCounter + 1)
             ELSE DetectLayersIndexIds(Tail(cands), meshMat, maps, variant,
                                       layerIdCounter)

\* model.traverse of the host's load callback: one layer per bound map that
\* the variant detects, ids from layerIdCounter
RECURSIVE DetectLayers(_, _, _, _, _)
DetectLayers(cands, meshMat, maps, variant, layerIdCounter) ==
    IF cands = << >> THEN << >>
    ELSE LET c == Head(cands)
             mat == meshMat[c.mesh][c.materialIndex + 1]
             detected ==
                 /\ maps[mat][c.mapType] # Null
                 /\ \/ variant = "allKinds"
                    \/ c.mapType = "map" /\ IsPrint(mat)
         IN  IF detected
             THEN <<[id |-> layerIdCounter, mesh |-> c.mesh,
                     materialIndex |-> c.materialIndex,
                     mapType |-> c.mapType, material |-> mat]>>
                  \o DetectLayers(Tail(cands), meshMat, maps, variant,
                                  layerIdCounter + 1)
             ELSE DetectLayers(Tail(cands), meshMat, maps, variant,
                               layerIdCounter)

LayerIds(layers) == {layers[i].id : i \in DOMAIN layers}

LayerById(layers, id) ==
    layers[CHOOSE i \in DOMAIN layers : layers[i].id = id]

\* the material the scan captured in the layer, whatever the mesh holds now
LayerMaterialCaptured(layer, meshMat) == [name |-> layer.material]

\* mats[layer.materialIndex] of the layer's mesh, Null when it is gone
LayerMaterial(layer, meshMat) ==
    IF layer.materialIndex + 1 \in DOMAIN meshMat[layer.mesh]
    THEN [name |-> meshMat[layer.mesh][layer.materialIndex + 1]]
    ELSE Null

\* originalTextures.set(layerId, mat[mapType]) for every detected layer
OriginalsOf(layers, maps) ==
    [id \in LayerIds(layers) |->
        maps[LayerById(layers, id).material][LayerById(layers, id).mapType]]

\* ------------------------------------------------------------------ state
VARIABLES
    \* the three.js scene
    meshMaterial,               \* mesh -> its materials (mesh.material)
    materialMaps,               \* material -> map type -> bound texture
    nextUid,                    \* identity of the next texture object created
    \* GlbTextureSwapTester
    variant,                    \* which of the file's two versions of the host runs
    loading,
    textureLayers,
    originalTexturesRef,
    hostTestTextureRefs,        \* which of the host's testTexture1Ref/2Ref are set
    showTextureTransformModal,
    \* TextureLayerManager
    managerOriginalTexturesRef,
    managerTestTexturesRef,     \* indices of testTexturesRef.current that are set
    \* TextureTransformModal
    textureTransform,
    baseScaleRef,
    selectionRectRef,
    lastAppliedTransformRef,
    originalSourceImageRef,
    imageRef,
    isDragging,
    dragStart,
    testTextureRefs,            \* which of the modal's testTexture1Ref/2Ref are set
    pendingImages,              \* Image elements whose onload is outstanding
    pendingTextures,            \* loader.load(dataUrl) calls outstanding
    isExporting,                \* USDZExporterButton's state
    error,
    exportRun,                  \* the export handleExport is awaiting, or Null
    \* bookkeeping of the verification
    inputs,                     \* user inputs and host re-renders so far (bounded)
    ev,                         \* the handler that ran last, with what it saw
    downAt,                     \* pointer and transform at the last pointer-down,
                                \* and which pointer-down it was
    firstMove,                  \* first pointer-move of the gesture in progress,
                                \* and whether the pointer has been elsewhere since
    confirmedAt,                \* what the last confirm saw, Discarded after a reset
    scanned,                    \* the registry as the scan recorded it
    initialised                 \* an img.onload has stored a transform since the
                                \* modal was last opened

sceneVars == <<meshMaterial, materialMaps, nextUid>>
scanVars == <<variant, loading, textureLayers, originalTexturesRef, scanned>>
exportVars == <<isExporting, error, exportRun>>
hostVars == <<scanVars, exportVars>>
registryVars == <<hostTestTextureRefs, managerOriginalTexturesRef>>
geometryVars == <<baseScaleRef, selectionRectRef>>
dragVars == <<isDragging, dragStart, downAt, firstMove>>
sessionVars == <<lastAppliedTransformRef, originalSourceImageRef, imageRef,
                 confirmedAt>>
loadVars == <<pendingImages, pendingTextures, initialised>>

vars == <<meshMaterial, materialMaps, nextUid, variant, loading, textureLayers,
          originalTexturesRef, hostTestTextureRefs, showTextureTransformModal,
          managerOriginalTexturesRef, managerTestTexturesRef, textureTransform,
          baseScaleRef, selectionRectRef, lastAppliedTransformRef,
          originalSourceImageRef, imageRef, isDragging, dragStart,
          testTextureRefs, pendingImages, pendingTextures, inputs,
          ev, downAt, firstMove, confirmedAt, scanned, initialised,
          isExporting, error, exportRun>>

\* the mouse events of the model, in client coordinates; on the canvas they
\* are (8,8), which is on the top-left corner handle while the selection rect
\* is still empty, the canvas centre and, for a 2:1 image, the middle of the
\* solid box's left edge and its rotation handle
MouseEvents ==
    { [clientX |-> 8320,  clientY |-> 4320],
      [clientX |-> 18000, clientY |-> 10660],
      [clientX |-> 10650, clientY |-> 10660],
      [clientX |-> 18000, clientY |-> 5785] }

Event(op, e) == [op |-> op, e |-> e]

RemoveAt(seq, i) == SubSeq(seq, 1, i - 1) \o SubSeq(seq, i + 1, Len(seq))

\* canvasRef.current is set exactly while the modal is rendered
CanvasMounted == showTextureTransformModal

\* the inner dashed box: 10% inset, 80% of the selection rect
InnerBox(sel) ==
    [x |-> sel.x + sel.width \div 10, y |-> sel.y + sel.height \div 10,
     width |-> (sel.width * 8) \div 10, height |-> (sel.height * 8) \div 10]

\* scale 1, no rotation, image centre on the centre of the inner box
IsDefaultFit(transform, sel) ==
    /\ transform.scaleX = ScaleOne /\ transform.scaleY = ScaleOne
    /\ transform.rotationDeg = 0
    /\ transform.translateX = InnerBox(sel).x + InnerBox(sel).width \div 2
    /\ transform.translateY = InnerBox(sel).y + InnerBox(sel).height \div 2

\* a remembered transform has been thrown away by Reset
Discarded == [discarded |-> TRUE]

\* what a button handler saw when it ran
Before ==
    [image |-> imageRef, last |-> lastAppliedTransformRef,
     maps |-> materialMaps, geometry |-> <<baseScaleRef, selectionRectRef>>,
     loads |-> Len(pendingTextures),
     modified |-> ~IsDefaultFit(textureTransform, selectionRectRef)]

Init ==
    /\ meshMaterial = [m \in Meshes |-> << >>]
    /\ materialMaps = [mat \in Materials |-> [t \in MapTypes |-> Null]]
    /\ nextUid = FirstFreeUid
    /\ variant \in Variants
    /\ loading = TRUE
    /\ textureLayers = << >>
    /\ originalTexturesRef = << >>
    /\ hostTestTextureRefs = {}
    /\ showTextureTransformModal = FALSE
    /\ managerOriginalTexturesRef = << >>
    /\ managerTestTexturesRef = {}
    /\ textureTransform = InitialTransform
    /\ baseScaleRef = InitialBaseScale
    /\ selectionRectRef = InitialSelectionRect
    /\ lastAppliedTransformRef = Null
    /\ originalSourceImageRef = Null
    /\ imageRef = Null
    /\ isDragging = NoDrag
    /\ dragStart = [x |-> 0, y |-> 0, transform |-> Null]
    /\ testTextureRefs = {}
    /\ pendingImages = << >>
    /\ pendingTextures = << >>
    /\ inputs = 0
    /\ ev = Event("init", Null)
    /\ downAt = Null
    /\ firstMove = Null
    /\ confirmedAt = Null
    /\ scanned = << >>
    /\ initialised = FALSE
    /\ isExporting = FALSE
    /\ error = Null
    /\ exportRun = Null

\* ------------------------------------------------------------------ host
\* gltfLoader.load callback: scan the model, publish layers and originals
ModelLoaded(scene) ==
    /\ loading
    /\ LET meshMat == SceneMeshMaterial(scene)
           maps == SceneMaps(scene)
           layers == DetectLayers(TraversalOrder(SceneMeshOrder(scene), meshMat),
                                  meshMat, maps, variant, 0)
       IN  /\ meshMaterial' = meshMat
           /\ materialMaps' = maps
           /\ textureLayers' = layers
           /\ originalTexturesRef' = OriginalsOf(layers, maps)
           /\ scanned' = OriginalsOf(layers, maps)
    /\ loading' = FALSE
    /\ ev' = Event("modelLoaded", [scene |-> scene])
    /\ UNCHANGED <<nextUid, variant, showTextureTransformModal,
                   textureTransform, testTextureRefs, managerTestTexturesRef,
                   inputs>>
    /\ UNCHANGED <<exportVars, registryVars, geometryVars, dragVars,
                   sessionVars, loadVars>>

\* the modal's own loader.load(testTexturePaths[i]) completes
TestTextureLoaded(i) ==
    /\ i \notin testTextureRefs
    /\ testTextureRefs' = testTextureRefs \cup {i}
    /\ ev' = Event("testTextureLoaded", Null)
    /\ UNCHANGED <<showTextureTransformModal, textureTransform,
                   managerTestTexturesRef, inputs>>
    /\ UNCHANGED <<sceneVars, hostVars, registryVars, geometryVars, dragVars,
                   sessionVars, loadVars>>

\* a render of the host hands the manager a new testTexturePaths array: its
\* load effect runs again and starts from testTexturesRef.current = []
ManagerReload == managerTestTexturesRef' = {}

\* ------------------------------------------------------------------ open
\* mat.map of the first layer whose mapType is 'map', Null when there is none
MapLayerTexture ==
    LET idx == {i \in DOMAIN textureLayers : textureLayers[i].mapType = "map"}
    IN  IF idx = {} THEN Null
        ELSE LET layer == textureLayers[CHOOSE i \in idx :
                                            \A j \in idx : i <= j]
                 mat == LayerMaterial(layer, meshMaterial)
             IN  IF mat = Null THEN Null ELSE materialMaps[mat.name]["map"]

TextureToUse ==
    IF MapLayerTexture # Null THEN MapLayerTexture
    ELSE IF 1 \in testTextureRefs THEN TestTexture(1)
    ELSE IF 2 \in testTextureRefs THEN TestTexture(2)
    ELSE Null

\* the imageSrc the open effect picks; every HTMLImageElement behind a
\* texture of this program is complete, an ImageBitmap has no src
OpenImageSrc ==
    IF lastAppliedTransformRef # Null /\ originalSourceImageRef # Null
    THEN originalSourceImageRef
    ELSE IF TextureToUse # Null /\ TextureToUse.image.kind = "img"
    THEN TextureToUse.image.src
    ELSE PathSrc(1)

\* how the session before this run of the open effect ended: the handler
\* that ran last, whether a close threw away a changed transform, whether a
\* reset had discarded a confirmed one
EndedBy ==
    [op |-> ev.op,
     modified |-> ev.op \in {"cancel", "backdrop"} /\ ev.e.modified,
     discarded |-> confirmedAt = Discarded]

\* body of the effect on [isOpen, textureLayers, testTexturePaths]
OpenEffect(cause) ==
    /\ originalSourceImageRef' =
          IF originalSourceImageRef = Null THEN OpenImageSrc
          ELSE originalSourceImageRef
    /\ pendingImages' =
          Append(pendingImages,
                 [src |-> OpenImageSrc, cause |-> cause, after |-> EndedBy])

\* one more input, while the run may take one
Input == inputs < MaxInputs /\ inputs' = inputs + 1

\* "Transform Texture (All Layers)" button
OpenModal ==
    /\ ~loading /\ Len(textureLayers) > 0
    /\ ~showTextureTransformModal
    /\ isDragging = NoDrag
    /\ Input
    /\ showTextureTransformModal' = TRUE
    /\ OpenEffect("open")
    /\ ManagerReload
    /\ ev' = Event("open", Null)
    /\ initialised' = FALSE
    /\ UNCHANGED <<textureTransform, testTextureRefs, lastAppliedTransformRef,
                   imageRef, confirmedAt, pendingTextures>>
    /\ UNCHANGED <<sceneVars, hostVars, registryVars, geometryVars, dragVars>>

\* the host re-renders while the modal is open: testTexturePaths is a new
\* array, so the open effect runs again
HostRerender ==
    /\ showTextureTransformModal /\ Len(textureLayers) > 0
    /\ Input
    /\ OpenEffect("rerender")
    /\ ManagerReload
    /\ ev' = Event("rerender", Null)
    /\ UNCHANGED <<showTextureTransformModal, textureTransform,
                   testTextureRefs, lastAppliedTransformRef, imageRef,
                   confirmedAt, pendingTextures, initialised>>
    /\ UNCHANGED <<sceneVars, hostVars, registryVars, geometryVars, dragVars>>

\* onload that fits the image whether or not a transform is remembered
OnloadStateAlwaysFit(last, fit) == fit

\* onload that recomputes the geometry but leaves the transform as it is
OnloadStateKeepingTransform(last, fit) ==
    IF last # Null
    THEN [selectionRect |-> last.selectionRect, baseScale |-> last.baseScale,
          transform |-> last.transform]
    ELSE [fit EXCEPT !.transform = textureTransform]

\* what img.onload stores: the remembered state if there is one (it always
\* carries a selectionRect), else the default fit of the loaded image
OnloadState(last, fit) ==
    IF last # Null
    THEN [selectionRect |-> last.selectionRect, baseScale |-> last.baseScale,
          transform |-> last.transform]
    ELSE fit

\* img.onload of an Image created by the open effect
ImageLoaded(i) ==
    /\ i \in DOMAIN pendingImages
    /\ LET img == LoadedImage(pendingImages[i].src)
           fit == initializeTextureTransform(img, CanvasWidth, CanvasHeight)
           stored == OnloadState(lastAppliedTransformRef, fit)
       IN  /\ imageRef' = img
           /\ IF ~CanvasMounted
              THEN UNCHANGED <<textureTransform, geometryVars, initialised>>
              ELSE /\ baseScaleRef' = stored.baseScale
                   /\ selectionRectRef' = stored.selectionRect
                   /\ textureTransform' = stored.transform
                   /\ initialised' = TRUE
    /\ pendingImages' = RemoveAt(pendingImages, i)
    /\ ev' = Event("imageLoaded", [cause |-> pendingImages[i].cause,
                                   after |-> pendingImages[i].after])
    /\ UNCHANGED <<showTextureTransformModal, testTextureRefs,
                   managerTestTexturesRef, lastAppliedTransformRef,
                   originalSourceImageRef, confirmedAt, pendingTextures,
                   inputs>>
    /\ UNCHANGED <<sceneVars, hostVars, registryVars, dragVars>>

\* the image never arrives; the Image has no onerror handler
ImageFailed(i) ==
    /\ i \in DOMAIN pendingImages
    /\ pendingImages' = RemoveAt(pendingImages, i)
    /\ ev' = Event("imageFailed", Null)
    /\ UNCHANGED <<showTextureTransformModal, textureTransform,
                   testTextureRefs, managerTestTexturesRef, pendingTextures,
                   initialised, inputs>>
    /\ UNCHANGED <<sceneVars, hostVars, registryVars, geometryVars, dragVars,
                   sessionVars>>

\* ------------------------------------------------------------------ pointer
\* One pointer with one button drives the page: between a pointer-down and
\* its pointer-up the only input is pointer-move, so a button is clicked and
\* a gesture is begun only while no gesture is in progress.
\* canvas onMouseDown: hit-test, then handleMouseDown(e, type)
PointerDown(e) ==
    /\ CanvasMounted
    /\ isDragging = NoDrag
    /\ Input
    /\ LET pos == displayToCanvas(e, BoundingClientRect)
       IN  /\ isDragging' = HitTest(pos.x, pos.y, selectionRectRef)
           /\ dragStart' = [x |-> pos.x, y |-> pos.y,
                            transform |-> textureTransform]
           /\ downAt' = [x |-> pos.x, y |-> pos.y,
                         transform |-> textureTransform,
                         gesture |-> IF downAt = Null THEN 1
                                     ELSE downAt.gesture + 1]
    /\ firstMove' = Null
    /\ ev' = Event("down", e)
    /\ UNCHANGED <<showTextureTransformModal, textureTransform,
                   testTextureRefs, managerTestTexturesRef>>
    /\ UNCHANGED <<sceneVars, hostVars, registryVars, geometryVars,
                   sessionVars, loadVars>>

\* the gesture math starting from the live transform
LiveSnapshot == [dragStart EXCEPT !.transform = textureTransform]

\* newTransform = { ...dragStart.transform }, with the pointer-start of the
\* same render
GestureSnapshot == dragStart

\* a mousemove whose corner drags also resize the selection rect
PointerMoveResizingBox(e) ==
    /\ isDragging # NoDrag
    /\ LET pos == displayToCanvas(e, BoundingClientRect)
           moved == MovedTransform(isDragging, GestureSnapshot, pos.x, pos.y,
                                   selectionRectRef)
           corner == isDragging \in {"corner-tl", "corner-tr", "corner-bl",
                                     "corner-br"}
       IN  IF ~CanvasMounted
           THEN UNCHANGED <<textureTransform, firstMove, geometryVars>>
           ELSE /\ textureTransform' = moved
                /\ baseScaleRef' = baseScaleRef
                /\ selectionRectRef' =
                      IF corner
                      THEN [selectionRectRef EXCEPT
                              !.width = Abs(pos.x - selectionRectRef.x),
                              !.height = Abs(pos.y - selectionRectRef.y)]
                      ELSE selectionRectRef
                /\ firstMove' =
                      IF firstMove = Null
                      THEN [e |-> e, transform |-> moved,
                            selectionRect |-> selectionRectRef,
                            strayed |-> FALSE]
                      ELSE [firstMove EXCEPT !.strayed = @ \/ e # firstMove.e]
    /\ ev' = Event("move", e)
    /\ UNCHANGED <<showTextureTransformModal, testTextureRefs,
                   managerTestTexturesRef, isDragging, dragStart, inputs,
                   downAt>>
    /\ UNCHANGED <<sceneVars, hostVars, registryVars, sessionVars, loadVars>>

\* window mousemove listener, attached while isDragging is set
PointerMove(e) ==
    /\ isDragging # NoDrag
    /\ LET pos == displayToCanvas(e, BoundingClientRect)
           moved == MovedTransform(isDragging, GestureSnapshot, pos.x, pos.y,
                                   selectionRectRef)
       IN  IF ~CanvasMounted
           THEN UNCHANGED <<textureTransform, firstMove>>
           ELSE /\ textureTransform' = moved
                /\ firstMove' =
                      IF firstMove = Null
                      THEN [e |-> e, transform |-> moved,
                            selectionRect |-> selectionRectRef,
                            strayed |-> FALSE]
                      ELSE [firstMove EXCEPT !.strayed = @ \/ e # firstMove.e]
    /\ ev' = Event("move", e)
    /\ UNCHANGED <<showTextureTransformModal, testTextureRefs,
                   managerTestTexturesRef, isDragging, dragStart, inputs,
                   downAt>>
    /\ UNCHANGED <<sceneVars, hostVars, registryVars, geometryVars,
                   sessionVars, loadVars>>

\* a mouseup that puts the transform back to the gesture's snapshot
PointerUpRestoring ==
    /\ isDragging # NoDrag
    /\ isDragging' = NoDrag
    /\ firstMove' = Null
    /\ textureTransform' = dragStart.transform
    /\ ev' = Event("up", Null)
    /\ UNCHANGED <<showTextureTransformModal, testTextureRefs,
                   managerTestTexturesRef, dragStart, inputs, downAt>>
    /\ UNCHANGED <<sceneVars, hostVars, registryVars, geometryVars,
                   sessionVars, loadVars>>

\* window mouseup listener
PointerUp ==
    /\ isDragging # NoDrag
    /\ isDragging' = NoDrag
    /\ firstMove' = Null
    /\ ev' = Event("up", Null)
    /\ UNCHANGED <<showTextureTransformModal, textureTransform,
                   testTextureRefs, managerTestTexturesRef, dragStart,
                   inputs, downAt>>
    /\ UNCHANGED <<sceneVars, hostVars, registryVars, geometryVars,
                   sessionVars, loadVars>>

\* the mouse moves while no gesture is in progress: the listener effect has
\* attached nothing, and handleMouseMove would return at its first line
IdleMove(e) ==
    /\ isDragging = NoDrag
    /\ ev' = Event("idleMove", e)
    /\ UNCHANGED <<showTextureTransformModal, textureTransform,
                   testTextureRefs, managerTestTexturesRef, inputs>>
    /\ UNCHANGED <<sceneVars, hostVars, registryVars, geometryVars, dragVars,
                   sessionVars, loadVars>>

\* ------------------------------------------------------------------ buttons
\* a reset that recomputes the fit but keeps the remembered transform
ResetClickRemembering ==
    /\ showTextureTransformModal
    /\ isDragging = NoDrag
    /\ IF imageRef = Null
       THEN UNCHANGED <<textureTransform, geometryVars>>
       ELSE LET fit == initializeTextureTransform(imageRef, CanvasWidth,
                                                  CanvasHeight)
            IN  /\ baseScaleRef' = fit.baseScale
                /\ selectionRectRef' = fit.selectionRect
                /\ textureTransform' = fit.transform
    /\ confirmedAt' = IF confirmedAt = Null \/ imageRef = Null
                      THEN confirmedAt ELSE Discarded
    /\ Input
    /\ ev' = Event("reset", Null)
    /\ UNCHANGED <<showTextureTransformModal, testTextureRefs,
                   managerTestTexturesRef, lastAppliedTransformRef,
                   originalSourceImageRef, imageRef>>
    /\ UNCHANGED <<sceneVars, hostVars, registryVars, dragVars, loadVars>>

\* Reset button: resetTextureTransform
ResetClick ==
    /\ showTextureTransformModal
    /\ isDragging = NoDrag
    /\ IF imageRef = Null
       THEN UNCHANGED <<textureTransform, geometryVars,
                        lastAppliedTransformRef, confirmedAt>>
       ELSE LET fit == initializeTextureTransform(imageRef, CanvasWidth,
                                                  CanvasHeight)
            IN  /\ baseScaleRef' = fit.baseScale
                /\ selectionRectRef' = fit.selectionRect
                /\ textureTransform' = fit.transform
                /\ lastAppliedTransformRef' = Null
                /\ confirmedAt' =
                      IF confirmedAt = Null THEN Null ELSE Discarded
    /\ Input
    /\ ev' = Event("reset", Null)
    /\ UNCHANGED <<showTextureTransformModal, testTextureRefs,
                   managerTestTexturesRef, originalSourceImageRef, imageRef>>
    /\ UNCHANGED <<sceneVars, hostVars, registryVars, dragVars, loadVars>>

\* every loader.load still outstanding has now seen the tool close
MarkClosed(pending) ==
    [i \in DOMAIN pending |-> [pending[i] EXCEPT !.closed = TRUE]]

\* a close that also forgets the remembered transform
OnCloseForgetting(op) ==
    /\ showTextureTransformModal
    /\ isDragging = NoDrag
    /\ showTextureTransformModal' = FALSE
    /\ pendingTextures' = MarkClosed(pendingTextures)
    /\ ManagerReload
    /\ Input
    /\ ev' = Event(op, Before)
    /\ lastAppliedTransformRef' = Null
    /\ UNCHANGED <<textureTransform, testTextureRefs, pendingImages,
                   initialised, originalSourceImageRef, imageRef, confirmedAt>>
    /\ UNCHANGED <<sceneVars, hostVars, registryVars, geometryVars, dragVars>>

\* onClose(): the host hides the modal
OnClose(op) ==
    /\ showTextureTransformModal
    /\ isDragging = NoDrag
    /\ showTextureTransformModal' = FALSE
    /\ pendingTextures' = MarkClosed(pendingTextures)
    /\ ManagerReload
    /\ ev' = Event(op, Before)
    /\ Input
    /\ UNCHANGED <<textureTransform, testTextureRefs, pendingImages,
                   initialised>>
    /\ UNCHANGED <<sceneVars, hostVars, registryVars, geometryVars, dragVars,
                   sessionVars>>

\* Cancel button
CancelClick == OnClose("cancel")

\* click on the backdrop outside the dialog
BackdropClick == OnClose("backdrop")

\* the export without its guard on the image
exportTextureFromSelectionUnguarded(img, transform, baseScale, sel) ==
    DataSrc([img |-> IF img = Null THEN Null ELSE img.src,
             transform |-> transform,
             baseScale |-> baseScale, selectionRect |-> sel])

\* the data URL of the baked canvas, Null while there is no loaded image
exportTextureFromSelection(img, transform, baseScale, sel) ==
    IF img = Null THEN Null
    ELSE DataSrc([img |-> img.src, transform |-> transform,
                  baseScale |-> baseScale, selectionRect |-> sel])

\* "Confirm & Apply" button: applyTextureTransformToAllLayers up to loader.load
ConfirmClick ==
    /\ showTextureTransformModal
    /\ isDragging = NoDrag
    /\ Input
    /\ LET dataUrl == exportTextureFromSelection(imageRef, textureTransform,
                                                 baseScaleRef, selectionRectRef)
           seen == [transform |-> textureTransform,
                    baseScale |-> baseScaleRef,
                    selectionRect |-> selectionRectRef,
                    image |-> IF imageRef = Null THEN Null ELSE imageRef.src]
       IN  IF dataUrl = Null
           THEN UNCHANGED <<lastAppliedTransformRef, originalSourceImageRef,
                            confirmedAt, pendingTextures>>
           ELSE /\ lastAppliedTransformRef' =
                      [transform |-> textureTransform,
                       baseScale |-> baseScaleRef,
                       selectionRect |-> selectionRectRef]
                /\ originalSourceImageRef' =
                      IF originalSourceImageRef = Null THEN imageRef.src
                      ELSE originalSourceImageRef
                /\ confirmedAt' = seen
                /\ pendingTextures' =
                      Append(pendingTextures,
                             [bake |-> dataUrl.bake, closed |-> FALSE])
    /\ ev' = Event("confirm", Before)
    /\ UNCHANGED <<showTextureTransformModal, textureTransform,
                   testTextureRefs, managerTestTexturesRef, imageRef,
                   pendingImages, initialised>>
    /\ UNCHANGED <<sceneVars, hostVars, registryVars, geometryVars, dragVars>>

\* a forEach that stops at the first layer whose material is gone
RECURSIVE ApplyToAllLayersAborting(_, _, _, _, _)
ApplyToAllLayersAborting(layers, meshMat, maps, texture, uid) ==
    IF layers = << >> THEN [maps |-> maps, uid |-> uid]
    ELSE LET layer == Head(layers)
             mat == LayerMaterial(layer, meshMat)
         IN  IF mat = Null
             THEN [maps |-> maps, uid |-> uid]
             ELSE ApplyToAllLayersAborting(
                    Tail(layers), meshMat,
                    [maps EXCEPT ![mat.name][layer.mapType] =
                        [uid |-> uid, image |-> texture.image]],
                    texture, uid + 1)

\* textureLayers.forEach of the load callback: bind a clone to every layer
\* whose material still exists
RECURSIVE ApplyToAllLayers(_, _, _, _, _)
ApplyToAllLayers(layers, meshMat, maps, texture, uid) ==
    IF layers = << >> THEN [maps |-> maps, uid |-> uid]
    ELSE LET layer == Head(layers)
             mat == LayerMaterial(layer, meshMat)
         IN  IF mat = Null
             THEN ApplyToAllLayers(Tail(layers), meshMat, maps, texture, uid)
             ELSE ApplyToAllLayers(
                    Tail(layers), meshMat,
                    [maps EXCEPT ![mat.name][layer.mapType] =
                        [uid |-> uid, image |-> texture.image]],
                    texture, uid + 1)

\* a canvas of zero width or height serialises to an empty data URL
Decodable(bake) ==
    bake.selectionRect.width > 0 /\ bake.selectionRect.height > 0

\* loader.load success callback.  The callback's textureLayers is the list of
\* the render that confirmed, which is the current list: the host sets it
\* once, in the model-load callback.  The callback binds and calls onClose;
\* it neither renders nor reports the change
TextureDecoded(i) ==
    /\ i \in DOMAIN pendingTextures
    /\ Decodable(pendingTextures[i].bake)
    /\ LET bake == pendingTextures[i].bake
           texture == [uid |-> nextUid,
                       image |-> [kind |-> "img", src |-> DataSrc(bake)]]
           applied == ApplyToAllLayers(textureLayers, meshMaterial,
                                       materialMaps, texture, nextUid + 1)
       IN  /\ materialMaps' = applied.maps
           /\ nextUid' = applied.uid
    /\ showTextureTransformModal' = FALSE
    /\ managerTestTexturesRef' =
          IF showTextureTransformModal THEN {} ELSE managerTestTexturesRef
    /\ pendingTextures' = MarkClosed(RemoveAt(pendingTextures, i))
    /\ ev' = Event("textureDecoded",
                   [closed |-> pendingTextures[i].closed,
                    bake |-> pendingTextures[i].bake,
                    maps |-> materialMaps, texture |-> nextUid,
                    redraw |-> FALSE, notified |-> FALSE])
    /\ UNCHANGED <<meshMaterial, textureTransform, testTextureRefs,
                   pendingImages, initialised, inputs>>
    /\ UNCHANGED <<hostVars, registryVars, geometryVars, dragVars, sessionVars>>

\* loader.load error callback: logs
TextureFailed(i) ==
    /\ i \in DOMAIN pendingTextures
    /\ pendingTextures' = RemoveAt(pendingTextures, i)
    /\ ev' = Event("textureFailed", Null)
    /\ UNCHANGED <<showTextureTransformModal, textureTransform,
                   testTextureRefs, managerTestTexturesRef, pendingImages,
                   initialised, inputs>>
    /\ UNCHANGED <<sceneVars, hostVars, registryVars, geometryVars, dragVars,
                   sessionVars>>

\* ------------------------------------------------------------------ canvas
\* exact rationals n/d, d > 0, in lowest terms
RECURSIVE Gcd(_, _)
Gcd(a, b) == IF b = 0 THEN a ELSE Gcd(b, a % b)

Frac(n, d) ==
    LET g == Gcd(Abs(n), d) IN [n |-> n \div g, d |-> d \div g]

FracAdd(a, b) == Frac(a.n * b.d + b.n * a.d, a.d * b.d)
FracMul(a, b) == Frac(a.n * b.n, a.d * b.d)
FracNeg(a) == [n |-> 0 - a.n, d |-> a.d]

\* baseScaleRef.current * textureTransform.scaleX (or scaleY)
RenderScale(baseScale, scale) == Frac(baseScale.n * scale, baseScale.d * ScaleOne)

\* the context calls between ctx.save() and ctx.restore() of the preview
PreviewOps(img, transform, baseScale) ==
    << [op |-> "translate", x |-> Frac(transform.translateX, 1),
                            y |-> Frac(transform.translateY, 1)],
       [op |-> "rotate", deg |-> transform.rotationDeg],
       [op |-> "scale", x |-> RenderScale(baseScale, transform.scaleX),
                        y |-> RenderScale(baseScale, transform.scaleY)],
       [op |-> "drawImage", x |-> Frac(0 - img.width, 2),
                            y |-> Frac(0 - img.height, 2)] >>

\* an export that maps the inner box to the export canvas in the other order
ExportOpsTranslateFirst(img, transform, baseScale, sel) ==
    LET inner == InnerBox(sel)
        s == Frac(ExportWidth, inner.width)
    IN  << [op |-> "translate", x |-> Frac(0 - inner.x, 1),
                                y |-> Frac(0 - inner.y, 1)],
           [op |-> "scale", x |-> s, y |-> s] >>
        \o PreviewOps(img, transform, baseScale)

\* the context calls between ctx.save() and ctx.restore() of the export
ExportOps(img, transform, baseScale, sel) ==
    LET inner == InnerBox(sel)
        s == Frac(ExportWidth, inner.width)
    IN  << [op |-> "scale", x |-> s, y |-> s],
           [op |-> "translate", x |-> Frac(0 - inner.x, 1),
                                y |-> Frac(0 - inner.y, 1)],
           [op |-> "translate", x |-> Frac(transform.translateX, 1),
                                y |-> Frac(transform.translateY, 1)],
           [op |-> "rotate", deg |-> transform.rotationDeg],
           [op |-> "scale", x |-> RenderScale(baseScale, transform.scaleX),
                            y |-> RenderScale(baseScale, transform.scaleY)],
           [op |-> "drawImage", x |-> Frac(0 - img.width, 2),
                                y |-> Frac(0 - img.height, 2)] >>

\* one context call applied to a point of the space it opens; rotations by
\* quarter turns only
ThroughOp(o, p) ==
    IF o.op \in {"translate", "drawImage"}
    THEN [x |-> FracAdd(p.x, o.x), y |-> FracAdd(p.y, o.y)]
    ELSE IF o.op = "scale"
    THEN [x |-> FracMul(p.x, o.x), y |-> FracMul(p.y, o.y)]
    ELSE LET turns == (o.deg \div 90) % 4
         IN  IF turns = 0 THEN p
             ELSE IF turns = 1 THEN [x |-> FracNeg(p.y), y |-> p.x]
             ELSE IF turns = 2 THEN [x |-> FracNeg(p.x), y |-> FracNeg(p.y)]
             ELSE [x |-> p.y, y |-> FracNeg(p.x)]

\* where the context calls put the source pixel p on the canvas
RECURSIVE Through(_, _)
Through(ops, p) ==
    IF ops = << >> THEN p
    ELSE ThroughOp(Head(ops), Through(Tail(ops), p))

\* effect on [textureTransform, isOpen]: renderTextureTransform draws the
\* preview
RenderEffect ==
    /\ showTextureTransformModal /\ imageRef # Null
    /\ ev' = Event("render",
                   [ops |-> PreviewOps(imageRef, textureTransform,
                                       baseScaleRef)])
    /\ UNCHANGED <<showTextureTransformModal, textureTransform,
                   testTextureRefs, managerTestTexturesRef, inputs>>
    /\ UNCHANGED <<sceneVars, hostVars, registryVars, geometryVars, dragVars,
                   sessionVars, loadVars>>

\* ------------------------------------------------------------------ slots
\* the ids a caller may name: those of the largest scan and one beyond
LayerIdRange == 0..3
TextureNumbers == {1, 2}

\* the host's textureLoader.load(TEST_IMAGE_n_PATH) completes
HostTestTextureLoaded(i) ==
    /\ i \notin hostTestTextureRefs
    /\ hostTestTextureRefs' = hostTestTextureRefs \cup {i}
    /\ ev' = Event("hostTestTextureLoaded", Null)
    /\ UNCHANGED <<showTextureTransformModal, textureTransform, testTextureRefs,
                   managerOriginalTexturesRef, managerTestTexturesRef, inputs>>
    /\ UNCHANGED <<sceneVars, hostVars, geometryVars, dragVars, sessionVars,
                   loadVars>>

\* the manager's loaderRef.current.load(path) completes; the manager is
\* rendered once the host has a model
ManagerTestTextureLoaded(i) ==
    /\ ~loading
    /\ i \notin managerTestTexturesRef
    /\ managerTestTexturesRef' = managerTestTexturesRef \cup {i}
    /\ ev' = Event("managerTestTextureLoaded", Null)
    /\ UNCHANGED <<showTextureTransformModal, textureTransform, testTextureRefs,
                   inputs>>
    /\ UNCHANGED <<sceneVars, hostVars, registryVars, geometryVars, dragVars,
                   sessionVars, loadVars>>

\* the scene graph is shared with whatever else holds the model: a mesh
\* loses its material after the scan (mesh.material emptied)
MaterialDropped(mesh) ==
    /\ ~loading
    /\ meshMaterial[mesh] # << >>
    /\ Input
    /\ meshMaterial' = [meshMaterial EXCEPT ![mesh] = << >>]
    /\ ev' = Event("materialDropped", Null)
    /\ UNCHANGED <<materialMaps, nextUid, showTextureTransformModal,
                   textureTransform, testTextureRefs, managerTestTexturesRef>>
    /\ UNCHANGED <<hostVars, registryVars, geometryVars, dragVars, sessionVars,
                   loadVars>>

\* the test texture itself bound to one map of a material
BindCloneShared(maps, mat, mapType, testTex, uid) ==
    [maps EXCEPT ![mat][mapType] = testTex]

\* testTex.clone() bound to one map of a material
BindClone(maps, mat, mapType, testTex, uid) ==
    [maps EXCEPT ![mat][mapType] = [uid |-> uid, image |-> testTex.image]]

\* the props the host gives the manager: renderer, scene and camera, and no
\* onLayerChange
ManagerHasRenderer == TRUE
ManagerHasOnLayerChange == FALSE

\* renderer.render(scene, camera) at the end of an apply or reset that bound
\* a texture; the host's own functions render through rendererRef
RendersAfter(op) ==
    \/ op \in {"hostApply", "hostReset"}
    \/ op \in {"managerApply", "managerReset"} /\ ManagerHasRenderer

\* onLayerChange(layerId, textureNumber, texture) at the end of an apply or
\* reset of the manager that bound a texture
NotifiesAfter(op) ==
    op \in {"managerApply", "managerReset"} /\ ManagerHasOnLayerChange

\* what an apply or a reset of one layer saw: the bindings, layer list and
\* registries before it, whether the layer or its material was missing,
\* whether its test texture was there, whether it changed the bindings,
\* rendered and notified, and how it follows a reset of the same layer
Seen(op, layerId, ready, maps) ==
    [id |-> layerId, before |-> materialMaps,
     layers |-> textureLayers,
     registry |-> <<originalTexturesRef, managerOriginalTexturesRef>>,
     missing |->
        \/ layerId \notin LayerIds(textureLayers)
        \/ LayerById(textureLayers, layerId).materialIndex + 1 \notin
              DOMAIN meshMaterial[LayerById(textureLayers, layerId).mesh],
     ready |-> ready,
     changed |-> maps # materialMaps,
     redraw |-> maps # materialMaps /\ RendersAfter(op),
     notified |-> maps # materialMaps /\ NotifiesAfter(op),
     again |-> ev.op = op /\ ev.e.id = layerId,
     priorChanged |-> ev.op = op /\ ev.e.id = layerId /\ ev.e.changed]

\* the host's applyTestTextureToLayer: its first version swaps 'map' layers
\* only and binds mat.map, its second binds mat[layer.mapType]
HostApplyTestTextureToLayer(layerId, textureNumber) ==
    /\ Input
    /\ LET found == layerId \in LayerIds(textureLayers)
           layer == LayerById(textureLayers, layerId)
           mat == LayerMaterial(layer, meshMaterial)
           bound ==
               /\ found
               /\ variant = "mapOnly" => layer.mapType = "map"
               /\ textureNumber \in hostTestTextureRefs
               /\ mat # Null
           maps == IF bound
                   THEN BindClone(materialMaps, mat.name,
                                  IF variant = "mapOnly" THEN "map"
                                  ELSE layer.mapType,
                                  TestTexture(textureNumber), nextUid)
                   ELSE materialMaps
       IN  /\ materialMaps' = maps
           /\ nextUid' = IF bound THEN nextUid + 1 ELSE nextUid
           /\ ev' = Event("hostApply",
                       Seen("hostApply", layerId,
                            textureNumber \in hostTestTextureRefs, maps))
    /\ UNCHANGED <<meshMaterial, showTextureTransformModal, textureTransform,
                   testTextureRefs, managerTestTexturesRef>>
    /\ UNCHANGED <<hostVars, registryVars, geometryVars, dragVars, sessionVars,
                   loadVars>>

\* a reset that also files the texture it replaces as the layer's original
HostResetLayerToOriginalSwapping(layerId) ==
    /\ Input
    /\ LET found == layerId \in LayerIds(textureLayers)
           layer == LayerById(textureLayers, layerId)
           mat == LayerMaterial(layer, meshMaterial)
           bound == /\ found /\ mat # Null
                    /\ layerId \in DOMAIN originalTexturesRef
           maps == IF bound
                   THEN [materialMaps EXCEPT ![mat.name][layer.mapType] =
                            originalTexturesRef[layerId]]
                   ELSE materialMaps
       IN  /\ materialMaps' = maps
           /\ originalTexturesRef' =
                 IF bound
                 THEN [originalTexturesRef EXCEPT ![layerId] =
                          materialMaps[mat.name][layer.mapType]]
                 ELSE originalTexturesRef
           /\ ev' = Event("hostReset", Seen("hostReset", layerId, TRUE, maps))
    /\ UNCHANGED <<meshMaterial, nextUid, variant, loading, textureLayers,
                   scanned, showTextureTransformModal, textureTransform,
                   testTextureRefs, managerTestTexturesRef>>
    /\ UNCHANGED <<exportVars, registryVars, geometryVars, dragVars,
                   sessionVars, loadVars>>

\* the host's resetLayerToOriginal
HostResetLayerToOriginal(layerId) ==
    /\ Input
    /\ LET found == layerId \in LayerIds(textureLayers)
           layer == LayerById(textureLayers, layerId)
           mat == LayerMaterial(layer, meshMaterial)
           bound == /\ found /\ mat # Null
                    /\ layerId \in DOMAIN originalTexturesRef
           maps == IF bound
                   THEN [materialMaps EXCEPT ![mat.name][layer.mapType] =
                            originalTexturesRef[layerId]]
                   ELSE materialMaps
       IN  /\ materialMaps' = maps
           /\ ev' = Event("hostReset", Seen("hostReset", layerId, TRUE, maps))
    /\ UNCHANGED <<meshMaterial, nextUid, showTextureTransformModal,
                   textureTransform, testTextureRefs, managerTestTexturesRef>>
    /\ UNCHANGED <<hostVars, registryVars, geometryVars, dragVars, sessionVars,
                   loadVars>>

\* the manager's applyTestTextureToLayer, called by the "Test n" button of
\* a layer
ManagerApplyTestTextureToLayer(layerId, textureNumber) ==
    /\ ~loading /\ ~showTextureTransformModal
    /\ Input
    /\ LET found == layerId \in LayerIds(textureLayers)
           layer == LayerById(textureLayers, layerId)
           mat == LayerMaterial(layer, meshMaterial)
           bound == /\ found
                    /\ textureNumber \in managerTestTexturesRef
                    /\ mat # Null
           maps == IF bound
                   THEN BindClone(materialMaps, mat.name, layer.mapType,
                                  TestTexture(textureNumber), nextUid)
                   ELSE materialMaps
       IN  /\ materialMaps' = maps
           /\ nextUid' = IF bound THEN nextUid + 1 ELSE nextUid
           /\ ev' = Event("managerApply",
                       Seen("managerApply", layerId,
                            textureNumber \in managerTestTexturesRef, maps))
    /\ UNCHANGED <<meshMaterial, showTextureTransformModal, textureTransform,
                   testTextureRefs, managerTestTexturesRef>>
    /\ UNCHANGED <<hostVars, registryVars, geometryVars, dragVars, sessionVars,
                   loadVars>>

\* the manager's resetLayerToOriginal, called by the "Reset" button of a
\* layer; it reads the manager's own registry
ManagerResetLayerToOriginal(layerId) ==
    /\ ~loading /\ ~showTextureTransformModal
    /\ Input
    /\ LET found == layerId \in LayerIds(textureLayers)
           layer == LayerById(textureLayers, layerId)
           mat == LayerMaterial(layer, meshMaterial)
           bound == /\ found /\ mat # Null
                    /\ layerId \in DOMAIN managerOriginalTexturesRef
           maps == IF bound
                   THEN [materialMaps EXCEPT ![mat.name][layer.mapType] =
                            managerOriginalTexturesRef[layerId]]
                   ELSE materialMaps
       IN  /\ materialMaps' = maps
           /\ ev' = Event("managerReset",
                       Seen("managerReset", layerId, TRUE, maps))
    /\ UNCHANGED <<meshMaterial, nextUid, showTextureTransformModal,
                   textureTransform, testTextureRefs, managerTestTexturesRef>>
    /\ UNCHANGED <<hostVars, registryVars, geometryVars, dragVars, sessionVars,
                   loadVars>>

\* ------------------------------------------------------------------ spec
\* the pointer positions of the session specification: (8,8) and the centre
SessionEvents ==
    { [clientX |-> 8320,  clientY |-> 4320],
      [clientX |-> 18000, clientY |-> 10660] }

\* the transform tool through its sessions
Next ==
    \/ ModelLoaded(1)
    \/ OpenModal
    \/ HostRerender
    \/ \E i \in DOMAIN pendingImages : ImageLoaded(i)
    \/ \E i \in DOMAIN pendingImages : ImageFailed(i)
    \/ \E e \in SessionEvents : PointerDown(e)
    \/ \E e \in SessionEvents : PointerMove(e)
    \/ PointerUp
    \/ ResetClick
    \/ CancelClick
    \/ BackdropClick
    \/ ConfirmClick
    \/ \E i \in DOMAIN pendingTextures : TextureDecoded(i)
    \/ \E i \in DOMAIN pendingTextures : TextureFailed(i)

Spec == Init /\ [][Next]_vars

\* the tool under gestures on corner, edge, rotation handle and image
NextGesture ==
    \/ ModelLoaded(1)
    \/ OpenModal
    \/ \E i \in DOMAIN pendingImages : ImageLoaded(i)
    \/ \E e \in MouseEvents : PointerDown(e)
    \/ \E e \in MouseEvents : PointerMove(e)
    \/ \E e \in MouseEvents : IdleMove(e)
    \/ PointerUp
    \/ ResetClick
    \/ CancelClick
    \/ ConfirmClick
    \/ \E i \in DOMAIN pendingTextures : TextureDecoded(i)

\* gestures do not depend on the host's version: the second one runs
InitGesture == Init /\ variant = "allKinds"

SpecGesture == InitGesture /\ [][NextGesture]_vars

\* a grid of translations, scales and rotations
BakeTransforms ==
    [translateX : {0, 20000, 26000}, translateY : {13320, 5970},
     scaleX : {MinScale, ScaleOne, MaxScale}, scaleY : {ScaleOne, 2 * ScaleOne},
     rotationDeg : {0, 30, 90, 180, 0 - 90}]

\* the tool open on a loaded, fitted image, before any confirm, over scene 1
\* as the second version of the host scans it
OpenedOn(img) ==
    /\ meshMaterial = SceneMeshMaterial(1)
    /\ materialMaps = SceneMaps(1)
    /\ nextUid = FirstFreeUid
    /\ variant = "allKinds"
    /\ loading = FALSE
    /\ textureLayers =
          DetectLayers(TraversalOrder(SceneMeshOrder(1), SceneMeshMaterial(1)),
                       SceneMeshMaterial(1), SceneMaps(1), "allKinds", 0)
    /\ originalTexturesRef = OriginalsOf(textureLayers, SceneMaps(1))
    /\ scanned = originalTexturesRef
    /\ isExporting = FALSE
    /\ error = Null
    /\ exportRun = Null
    /\ hostTestTextureRefs = {}
    /\ showTextureTransformModal = TRUE
    /\ managerOriginalTexturesRef = << >>
    /\ managerTestTexturesRef = {}
    /\ imageRef = img
    /\ originalSourceImageRef = img.src
    /\ lastAppliedTransformRef = Null
    /\ LET fit == initializeTextureTransform(img, CanvasWidth, CanvasHeight)
       IN  /\ baseScaleRef = fit.baseScale
           /\ selectionRectRef = fit.selectionRect
    /\ testTextureRefs = {}
    /\ pendingImages = << >>
    /\ pendingTextures = << >>
    /\ initialised = TRUE
    /\ confirmedAt = Null

\* the tool idle on an image, with the transform anywhere in the grid
IdleOn(img) ==
    /\ OpenedOn(img)
    /\ textureTransform \in BakeTransforms
    /\ isDragging = NoDrag
    /\ dragStart = [x |-> 0, y |-> 0, transform |-> Null]
    /\ downAt = Null
    /\ firstMove = Null
    /\ ev = Event("imageLoaded", Null)
    /\ inputs = 1

\* handleMouseMove as a function of isDragging, dragStart, the pointer and
\* the selection rect: the tool is open on the first test image and a gesture
\* of any kind has started at any of the pointer positions, those that the
\* canvas's hit test does not give that kind included
MoveSnapshots ==
    LET fit == initializeTextureTransform(LoadedImage(PathSrc(1)),
                                          CanvasWidth, CanvasHeight).transform
    IN  {fit, [fit EXCEPT !.scaleX = 2 * ScaleOne, !.rotationDeg = 30],
         [fit EXCEPT !.scaleX = 4 * ScaleOne, !.scaleY = 3 * ScaleOne]}

InitMove ==
    /\ OpenedOn(LoadedImage(PathSrc(1)))
    /\ textureTransform \in MoveSnapshots
    /\ isDragging \in Kinds
    /\ \E e \in MouseEvents :
          LET pos == displayToCanvas(e, BoundingClientRect)
          IN  /\ dragStart = [x |-> pos.x, y |-> pos.y,
                              transform |-> textureTransform]
              /\ downAt = [x |-> pos.x, y |-> pos.y,
                           transform |-> textureTransform, gesture |-> 1]
              /\ ev = Event("down", e)
    /\ firstMove = Null
    /\ inputs = 2

NextMove ==
    \/ \E e \in MouseEvents : PointerMove(e)
    \/ PointerUp

SpecMove == InitMove /\ [][NextMove]_vars

\* the mouse event that lands on a canvas position
AtCanvas(x, y) ==
    [clientX |-> BoundingClientRect.left
                   + (x * BoundingClientRect.width) \div CanvasWidth,
     clientY |-> BoundingClientRect.top
                   + (y * BoundingClientRect.height) \div CanvasHeight]

\* pointer positions around the selection rect of the first test image
\* (x 5300, y 5970, 29400 x 14700): where a corner region overlaps an edge
\* band, one handle size off a corner, the middle of each edge, the rotation
\* handle, the centre and a point outside the rect
HandleEvents ==
    { AtCanvas(5700, 5970), AtCanvas(5300, 6370), AtCanvas(34300, 5970),
      AtCanvas(5700, 20670), AtCanvas(34700, 20270),
      AtCanvas(5300 + HandleSize, 5970),
      AtCanvas(12000, 5970), AtCanvas(20000, 20670),
      AtCanvas(5300, 13320), AtCanvas(34700, 13320),
      AtCanvas(20000, 3570),
      AtCanvas(20000, 13320), AtCanvas(2000, 2000) }

\* one gesture on the fitted first test image, from pointer-down to pointer-up
InitPointer ==
    /\ OpenedOn(LoadedImage(PathSrc(1)))
    /\ textureTransform \in MoveSnapshots
    /\ isDragging = NoDrag
    /\ dragStart = [x |-> 0, y |-> 0, transform |-> Null]
    /\ downAt = Null
    /\ firstMove = Null
    /\ ev = Event("imageLoaded", Null)
    /\ inputs = MaxInputs - 1

NextPointer ==
    \/ \E e \in HandleEvents : PointerDown(e)
    \/ \E e \in HandleEvents : PointerMove(e)
    \/ \E e \in HandleEvents : IdleMove(e)
    \/ PointerUp

SpecPointer == InitPointer /\ [][NextPointer]_vars

\* preview and export as functions of the image, the transform, the base
\* scale and the selection rect: the tool is open on either test image, fitted,
\* with the transform anywhere in the grid
InitBake == \E i \in {1, 2} : IdleOn(LoadedImage(PathSrc(i)))

NextBake == RenderEffect

SpecBake == InitBake /\ [][NextBake]_vars

\* the default fit as a function of the image size: the file behind the first
\* test path has any of these natural sizes (wide, square, tall, and sizes
\* whose first fit overflows the available height or width), and Reset refits
\* it
FitImages ==
    {[width |-> 400, height |-> 200], [width |-> 300, height |-> 300],
     [width |-> 200, height |-> 400], [width |-> 600, height |-> 200],
     [width |-> 488, height |-> 323], [width |-> 490, height |-> 323],
     [width |-> 1, height |-> 3], [width |-> 4, height |-> 1],
     [width |-> 800, height |-> 600], [width |-> 200, height |-> 300]}

InitFit ==
    \E size \in FitImages :
        IdleOn([src |-> PathSrc(1), width |-> size.width,
                height |-> size.height])

NextFit == ResetClick

SpecFit == InitFit /\ [][NextFit]_vars

\* the slots of a loaded model under apply, apply-to-all and reset; the
\* manager's and the modal's second test image are still on their way
NextRegistry ==
    \/ \E scene \in SceneIds : ModelLoaded(scene)
    \/ \E i \in TextureNumbers : HostTestTextureLoaded(i)
    \/ ManagerTestTextureLoaded(1)
    \/ TestTextureLoaded(1)
    \/ \E layerId \in LayerIdRange, n \in TextureNumbers :
          HostApplyTestTextureToLayer(layerId, n)
    \/ \E layerId \in LayerIdRange : HostResetLayerToOriginal(layerId)
    \/ \E layerId \in LayerIdRange, n \in TextureNumbers :
          ManagerApplyTestTextureToLayer(layerId, n)
    \/ \E layerId \in LayerIdRange : ManagerResetLayerToOriginal(layerId)
    \/ \E mesh \in Meshes : MaterialDropped(mesh)
    \/ OpenModal
    \/ \E i \in DOMAIN pendingImages : ImageLoaded(i)
    \/ ConfirmClick
    \/ \E i \in DOMAIN pendingTextures : TextureDecoded(i)

SpecRegistry == Init /\ [][NextRegistry]_vars

\* the scan of each model by each version of the host, and the host's panel
\* working on the slots it found
NextScan ==
    \/ \E scene \in ScanScenes : ModelLoaded(scene)
    \/ \E i \in TextureNumbers : HostTestTextureLoaded(i)
    \/ \E layerId \in LayerIdRange, i \in TextureNumbers :
          HostApplyTestTextureToLayer(layerId, i)
    \/ \E layerId \in LayerIdRange : HostResetLayerToOriginal(layerId)

SpecScan == Init /\ [][NextScan]_vars

\* the tool between two sessions: it has been opened once on the first test
\* image and closed without a confirm, and the host's panel has, or has not,
\* put the host's second test image on the colour map of the first layer
InitSource ==
    /\ meshMaterial = SceneMeshMaterial(1)
    /\ variant = "allKinds"
    /\ loading = FALSE
    /\ textureLayers =
          DetectLayers(TraversalOrder(SceneMeshOrder(1), SceneMeshMaterial(1)),
                       SceneMeshMaterial(1), SceneMaps(1), "allKinds", 0)
    /\ originalTexturesRef = OriginalsOf(textureLayers, SceneMaps(1))
    /\ scanned = originalTexturesRef
    /\ isExporting = FALSE
    /\ error = Null
    /\ exportRun = Null
    /\ hostTestTextureRefs = {2}
    /\ \E swapped \in BOOLEAN :
          /\ materialMaps =
                IF swapped
                THEN BindClone(SceneMaps(1), "matA", "map", TestTexture(2),
                               FirstFreeUid)
                ELSE SceneMaps(1)
          /\ nextUid = IF swapped THEN FirstFreeUid + 1 ELSE FirstFreeUid
    /\ showTextureTransformModal = FALSE
    /\ managerOriginalTexturesRef = << >>
    /\ managerTestTexturesRef = {}
    /\ imageRef = LoadedImage(PathSrc(1))
    /\ originalSourceImageRef = PathSrc(1)
    /\ lastAppliedTransformRef = Null
    /\ LET fit == initializeTextureTransform(imageRef, CanvasWidth, CanvasHeight)
       IN  /\ baseScaleRef = fit.baseScale
           /\ selectionRectRef = fit.selectionRect
           /\ textureTransform = fit.transform
    /\ isDragging = NoDrag
    /\ dragStart = [x |-> 0, y |-> 0, transform |-> Null]
    /\ testTextureRefs = {}
    /\ pendingImages = << >>
    /\ pendingTextures = << >>
    /\ initialised = TRUE
    /\ inputs = 0
    /\ ev = Event("sessionClosed", Null)
    /\ downAt = Null
    /\ firstMove = Null
    /\ confirmedAt = Null

\* open, confirm, reset, close and reopen, with the loads they start
NextSource ==
    \/ OpenModal
    \/ \E i \in DOMAIN pendingImages : ImageLoaded(i)
    \/ ResetClick
    \/ CancelClick
    \/ ConfirmClick
    \/ \E i \in DOMAIN pendingTextures : TextureDecoded(i)

SpecSource == InitSource /\ [][NextSource]_vars

\* -------------------------------------------------------------- USDZ export
\* the props of USDZExporterButton: whether a model and a scene are given
ExportProps == [model : BOOLEAN, scene : BOOLEAN]

\* the Errors the clone, the exporter or the download can throw
ThrownErrors == {[message |-> "boom"], [message |-> ""]}

\* what the awaited parseAsync/parse settles with: a buffer of some bytes,
\* an empty buffer, no buffer at all, or a rejection
ExportOutcomes ==
    {[kind |-> "buffer", byteLength |-> 2048],
     [kind |-> "buffer", byteLength |-> 0],
     [kind |-> "undefined"]}
        \cup {[kind |-> "thrown", err |-> err] : err \in ThrownErrors}

NoTargetError == [text |-> "No model or scene provided for export"]

\* `Export failed: ${err.message || "Unknown error"}`
ExportFailedError(err) ==
    [text |-> "Export failed: ",
     message |-> IF err.message = "" THEN "Unknown error" ELSE err.message]

\* the variables no part of the exporter touches
ExportUnchanged ==
    /\ UNCHANGED <<showTextureTransformModal, textureTransform,
                   testTextureRefs, managerTestTexturesRef>>
    /\ UNCHANGED <<sceneVars, scanVars, registryVars, geometryVars, dragVars,
                   sessionVars, loadVars>>

\* handleExport that leaves the previous error message in place
handleExportKeepingError(props, early) ==
    /\ ~loading
    /\ ~isExporting
    /\ Input
    /\ IF ~props.model /\ ~props.scene
       THEN /\ error' = NoTargetError
            /\ UNCHANGED <<isExporting, exportRun>>
       ELSE IF early # Null
            THEN /\ error' = ExportFailedError(early)
                 /\ UNCHANGED <<isExporting, exportRun>>
            ELSE /\ isExporting' = TRUE
                 /\ UNCHANGED error
                 /\ exportRun' =
                       [target |-> IF props.model THEN "model" ELSE "scene"]
    /\ ev' = Event("handleExport",
                   [props |-> props, early |-> early, error |-> error])
    /\ ExportUnchanged

\* handleExport, from the call to its first await or, when the clone throws
\* before that, to its end; the host mounts the button once the model has
\* loaded, and a click reaches the handler only while the button is not
\* rendered as exporting. Without model and scene the button is rendered
\* disabled as well; the first branch is the handler's own check, taken when
\* it is called all the same
handleExport(props, early) ==
    /\ ~loading
    /\ ~isExporting
    /\ Input
    /\ IF ~props.model /\ ~props.scene
       THEN /\ error' = NoTargetError
            /\ UNCHANGED <<isExporting, exportRun>>
       ELSE IF early # Null
            THEN \* setIsExporting(true), setError(null), catch, finally
                 /\ error' = ExportFailedError(early)
                 /\ UNCHANGED <<isExporting, exportRun>>
            ELSE /\ isExporting' = TRUE
                 /\ error' = Null
                 /\ exportRun' =
                       [target |-> IF props.model THEN "model" ELSE "scene"]
    /\ ev' = Event("handleExport",
                   [props |-> props, early |-> early, error |-> error])
    /\ ExportUnchanged

\* whether the rest of handleExport ends in its catch
ExportFails(outcome) ==
    \/ outcome.kind \in {"thrown", "undefined"}
    \/ outcome.kind = "buffer" /\ outcome.byteLength = 0

\* the error the catch is entered with
CaughtError(outcome) ==
    IF outcome.kind = "thrown" THEN outcome.err
    ELSE [message |-> "Export returned empty result"]

\* handleExport from its await to its end: result check, download, catch
\* and finally
ExportSettled(outcome) ==
    /\ exportRun # Null
    /\ error' = IF ExportFails(outcome)
                THEN ExportFailedError(CaughtError(outcome))
                ELSE error
    /\ isExporting' = FALSE
    /\ exportRun' = Null
    /\ ev' = Event("exportSettled",
                   [outcome |-> outcome, target |-> exportRun.target])
    /\ UNCHANGED inputs
    /\ ExportUnchanged

\* the exporter button next to a loaded model
NextExport ==
    \/ \E scene \in SceneIds : ModelLoaded(scene)
    \/ \E props \in ExportProps, early \in {Null} \cup ThrownErrors :
          handleExport(props, early)
    \/ \E outcome \in ExportOutcomes : ExportSettled(outcome)

SpecExport == Init /\ [][NextExport]_vars

\* ------------------------------------------------------------------ claims
\* C1: in every reachable state of the transform tool, whatever gestures,
\* resets, confirms, closes and reopens led to it, scaleX and scaleY are
\* both within [0.1, 5.0]
ScaleWithinRange ==
    /\ MinScale <= textureTransform.scaleX
    /\ textureTransform.scaleX <= MaxScale
    /\ MinScale <= textureTransform.scaleY
    /\ textureTransform.scaleY <= MaxScale

\* a corner drag onto the centre of the solid box has run into the lower limit
ScaleClampedAtLimit ==
    /\ ev.op = "move"
    /\ isDragging = "corner-tl"
    /\ selectionRectRef.width > 0
    /\ textureTransform.scaleX = MinScale
    /\ textureTransform.scaleY = MinScale

BakeBound(c) ==
    \E mat \in Materials, t \in MapTypes :
        LET tex == materialMaps[mat][t]
        IN  /\ tex # Null
            /\ tex.image.kind = "img"
            /\ tex.image.src.kind = "data"
            /\ tex.image.src.bake.transform = c.transform
            /\ tex.image.src.bake.baseScale = c.baseScale
            /\ tex.image.src.bake.selectionRect = c.selectionRect

\* a confirm has been pressed and no reset has discarded it since
Remembered == confirmedAt # Null /\ confirmedAt # Discarded

\* C3: after a confirm whose bake was applied, once the image load of the
\* next open completes the tool shows exactly the transform, the baseScale
\* and the selection rect that were current when confirm was pressed
ReopenRestoresConfirmed ==
    (ev.op = "imageLoaded" /\ showTextureTransformModal
        /\ Remembered /\ BakeBound(confirmedAt))
    => /\ textureTransform = confirmedAt.transform
       /\ baseScaleRef = confirmedAt.baseScale
       /\ selectionRectRef = confirmedAt.selectionRect

\* reopened after the decode callback closed the tool, the load has brought
\* back a confirmed transform that is not the default fit
ReopenedWithConfirmed ==
    /\ ev.op = "imageLoaded" /\ showTextureTransformModal
    /\ ev.e.cause = "open" /\ ev.e.after.op = "textureDecoded"
    /\ Remembered /\ BakeBound(confirmedAt)
    /\ textureTransform = confirmedAt.transform
    /\ ~IsDefaultFit(textureTransform, selectionRectRef)

\* C4: opened with nothing remembered, changed by gestures, closed without
\* confirm and opened again, the tool shows the default fit once the image
\* load completes: scale 1, rotation 0, image centre on the centre of the
\* inner box
ReopenWithoutConfirmFits ==
    (ev.op = "imageLoaded" /\ showTextureTransformModal /\ confirmedAt = Null)
    => IsDefaultFit(textureTransform, selectionRectRef)

\* reopened after a cancel that threw away a changed transform, loaded
ReopenedAfterDiscard ==
    /\ ev.op = "imageLoaded" /\ showTextureTransformModal
    /\ ev.e.cause = "open"
    /\ ev.e.after.op \in {"cancel", "backdrop"} /\ ev.e.after.modified
    /\ confirmedAt = Null
    /\ pendingImages = << >>
    /\ selectionRectRef.width > 0
    /\ IsDefaultFit(textureTransform, selectionRectRef)

CloseLeavesRemembered ==
    ev.op \in {"cancel", "backdrop"}
    => /\ lastAppliedTransformRef = ev.e.last
       /\ <<baseScaleRef, selectionRectRef>> = ev.e.geometry
       /\ materialMaps = ev.e.maps

\* a session with a remembered transform and no confirm outstanding has
\* been closed by the backdrop
ClosedWithRemembered ==
    /\ ev.op = "backdrop"
    /\ ev.e.last # Null /\ ev.e.loads = 0
    /\ BakeBound(ev.e.last)
    /\ lastAppliedTransformRef = ev.e.last

\* C7: a decode callback that fires after the tool was closed changes no
\* slot's bound texture
ClosedConfirmNeverApplies ==
    (ev.op = "textureDecoded" /\ ev.e.closed) => materialMaps = ev.e.maps

\* C8: the remembered transform is written only after the bake is bound:
\* pressing confirm leaves it as it was until the decode callback has run,
\* and a remembered transform has its bake bound to the slots
RememberedAfterApply ==
    /\ ev.op = "confirm" => lastAppliedTransformRef = ev.e.last
    /\ lastAppliedTransformRef # Null => BakeBound(lastAppliedTransformRef)

\* C9: a confirm pressed while there is no loaded source image changes no
\* slot's bound texture, leaves the remembered transform alone, starts no
\* texture load and leaves the tool open
ConfirmWithoutImageStops ==
    (ev.op = "confirm" /\ ev.e.image = Null)
    => /\ materialMaps = ev.e.maps
       /\ lastAppliedTransformRef = ev.e.last
       /\ Len(pendingTextures) = ev.e.loads
       /\ showTextureTransformModal

\* confirm was pressed before the image of the first open had loaded
ConfirmedWithoutImage ==
    /\ ev.op = "confirm" /\ ev.e.image = Null
    /\ imageRef = Null /\ pendingImages # << >>
    /\ showTextureTransformModal

\* C10: a reset of a layer straight after a reset of the same layer leaves
\* every binding as the first reset left it, and whatever applies,
\* apply-to-alls and resets have run, the registry of originals holds the
\* keys and textures the scan recorded (the manager's own registry, which
\* no scan filled, stays empty)
ResetTwiceAndRegistryKept ==
    /\ ~loading => originalTexturesRef = scanned
    /\ managerOriginalTexturesRef = << >>
    /\ (ev.op \in {"hostReset", "managerReset"} /\ ev.e.again)
          => materialMaps = ev.e.before

\* a layer carrying an applied texture has just been reset twice by the host:
\* the first reset brought the original back, the second changed nothing
ResetTwiceAfterApply ==
    /\ ev.op = "hostReset" /\ ev.e.again /\ ev.e.priorChanged
    /\ ~ev.e.changed
    /\ originalTexturesRef = scanned
    /\ nextUid > FirstFreeUid

\* C11: every layer the manager knows has an entry in the manager's registry
\* of originals equal to the texture bound at scan time, and the manager's
\* Reset of a layer leaves that texture bound
ManagerResetRestoresOriginal ==
    /\ ~loading =>
          \A id \in LayerIds(textureLayers) :
              /\ id \in DOMAIN managerOriginalTexturesRef
              /\ managerOriginalTexturesRef[id] = scanned[id]
    /\ ev.op = "managerReset" =>
          LET layer == LayerById(textureLayers, ev.e.id)
          IN  materialMaps[layer.material][layer.mapType] = scanned[ev.e.id]

\* C12: when the decode callback of a confirm runs over layers of which some
\* have lost their material, every layer whose material exists carries the
\* baked image afterwards, the maps of no other material have changed, and
\* the tool is closed
AppliesToEveryLiveLayer ==
    ev.op = "textureDecoded" =>
        /\ ~showTextureTransformModal
        /\ \A i \in DOMAIN textureLayers :
              LET mat == LayerMaterial(textureLayers[i], meshMaterial)
              IN  mat # Null =>
                    materialMaps[mat.name][textureLayers[i].mapType].image
                        = [kind |-> "img", src |-> DataSrc(ev.e.bake)]
        /\ \A m \in Materials :
              (\A i \in DOMAIN textureLayers :
                    LayerMaterial(textureLayers[i], meshMaterial)
                        # [name |-> m])
                 => materialMaps[m] = ev.e.maps[m]

\* a decode callback has just run over a layer list with a layer whose
\* material is gone ahead of a layer whose material exists
AppliedPastMissingLayer ==
    /\ ev.op = "textureDecoded"
    /\ materialMaps # ev.e.maps
    /\ \E i, j \in DOMAIN textureLayers :
          /\ i < j
          /\ LayerMaterial(textureLayers[i], meshMaterial) = Null
          /\ LayerMaterial(textureLayers[j], meshMaterial) # Null

\* C13: whatever per-layer applies and apply-to-alls have run, every layer
\* of a kind other than 'map' still carries the texture the scan found on it
NonSwappableKept ==
    \A id \in DOMAIN scanned :
        LET layer == LayerById(textureLayers, id)
        IN  layer.mapType # "map" =>
              materialMaps[layer.material][layer.mapType] = scanned[id]

\* C14: an apply or a reset that names no layer of the list, or a layer whose
\* material is gone, leaves every binding, the layer list and both
\* registries as they were; so does a reset of a layer that has no entry in
\* the registry it reads
MissingLayerIsNoOp ==
    ev.op \in {"hostApply", "hostReset", "managerApply", "managerReset"} =>
        /\ ev.e.missing =>
              /\ materialMaps = ev.e.before
              /\ textureLayers = ev.e.layers
              /\ <<originalTexturesRef, managerOriginalTexturesRef>>
                    = ev.e.registry
        /\ (ev.op = "hostReset" /\ ev.e.id \notin DOMAIN originalTexturesRef)
              => materialMaps = ev.e.before
        /\ (ev.op = "managerReset"
               /\ ev.e.id \notin DOMAIN managerOriginalTexturesRef)
              => materialMaps = ev.e.before

\* the manager has just been asked to apply a loaded test texture to a layer
\* of the list whose material is gone
AppliedToMissingMaterial ==
    /\ ev.op = "managerApply"
    /\ ev.e.id \in LayerIds(textureLayers)
    /\ ev.e.missing /\ ev.e.ready

\* the (material, map type) pairs that carry a texture
BoundSlots ==
    {slot \in Materials \X MapTypes : materialMaps[slot[1]][slot[2]] # Null}

ChangeIsAnnounced ==
    /\ (ev.op \in {"managerApply", "managerReset"} /\ ev.e.changed)
          => (ev.e.redraw /\ ev.e.notified)
    /\ (ev.op = "textureDecoded" /\ materialMaps # ev.e.maps)
          => (ev.e.redraw /\ ev.e.notified)

StartDistance(kind, start, sel) ==
    LET centerX == sel.x + sel.width \div 2
        centerY == sel.y + sel.height \div 2
    IN  IF kind \in {"corner-tl", "corner-tr", "corner-bl", "corner-br"}
        THEN Distance(start.x, start.y, centerX, centerY)
        ELSE IF kind \in {"edge-top", "edge-bottom"}
        THEN Abs(start.y - centerY)
        ELSE Abs(start.x - centerX)

\* C18: a pointer-move of a corner or edge gesture leaves the scales of the
\* gesture untouched exactly when the gesture's start distance from the
\* centre of the selection rect is not above 0.01; otherwise the scales it
\* drives are the start scales times current over start distance, clamped
ScaleSkippedOnStartDistance ==
    (/\ ev.op = "move" /\ showTextureTransformModal
     /\ isDragging \notin {NoDrag, "pan", "rotate"})
        => LET pos == displayToCanvas(ev.e, BoundingClientRect)
               cur == [x |-> pos.x, y |-> pos.y]
               startD == StartDistance(isDragging, dragStart, selectionRectRef)
               curD == StartDistance(isDragging, cur, selectionRectRef)
               snap == dragStart.transform
               wide == isDragging \notin {"edge-top", "edge-bottom"}
               high == isDragging \notin {"edge-left", "edge-right"}
           IN  IF AboveEpsilon(startD)
               THEN /\ wide => textureTransform.scaleX
                                  = ClampedScale(snap.scaleX, curD, startD)
                    /\ high => textureTransform.scaleY
                                  = ClampedScale(snap.scaleY, curD, startD)
               ELSE /\ textureTransform.scaleX = snap.scaleX
                    /\ textureTransform.scaleY = snap.scaleY

\* the corners and the centre of an image, in image pixels
SourcePoints(img) ==
    {[x |-> Frac(u, 2), y |-> Frac(v, 2)] :
        u \in {0, img.width, 2 * img.width},
        v \in {0, img.height, 2 * img.height}}

\* C19: the export's context calls are a scale by exportWidth over the inner
\* box's width and a translate by minus the inner box's origin, followed by
\* exactly the calls the preview made from the same state; and a source
\* point the preview puts at p relative to the inner box is put at
\* p * exportWidth / innerBox.width by the export (checked at quarter turns)
ExportIsScaledPreview ==
    ev.op = "render" =>
        LET inner == InnerBox(selectionRectRef)
            s == Frac(ExportWidth, inner.width)
            export == ExportOps(imageRef, textureTransform, baseScaleRef,
                                selectionRectRef)
        IN  /\ export =
                  << [op |-> "scale", x |-> s, y |-> s],
                     [op |-> "translate", x |-> Frac(0 - inner.x, 1),
                                          y |-> Frac(0 - inner.y, 1)] >>
                  \o ev.e.ops
            /\ textureTransform.rotationDeg % 90 = 0 =>
                  \A p \in SourcePoints(imageRef) :
                      LET q == Through(ev.e.ops, p)
                      IN  Through(export, p) =
                            [x |-> FracMul(s, FracAdd(q.x,
                                                Frac(0 - inner.x, 1))),
                             y |-> FracMul(s, FracAdd(q.y,
                                                Frac(0 - inner.y, 1)))]

\* the preview of a rotated, unevenly scaled image off the centre has been
\* drawn
RenderedRotatedPreview ==
    /\ ev.op = "render"
    /\ textureTransform.rotationDeg = 90
    /\ textureTransform.scaleX # textureTransform.scaleY
    /\ ~IsDefaultFit(textureTransform, selectionRectRef)

\* canvas sizes the fit is computed for: the canvas element's own, and a
\* portrait one
FitCanvases ==
    {[w |-> CanvasWidth, h |-> CanvasHeight], [w |-> 400 * PX, h |-> 600 * PX]}

\* every quotient of the fit falls on the length grid, so that the model's
\* integer arithmetic is the code's arithmetic
OnGrid(img, cw, ch) ==
    LET d == DashedBox(img.width, img.height, cw, ch)
        padding == cw \div 100
        solidW == (d.w * 10) \div 8
        solidH == (d.h * 10) \div 8
    IN  /\ cw % 100 = 0
        /\ ((cw - padding * 2) * 6) % 10 = 0
        /\ ((ch - padding * 2) * 6) % 10 = 0
        /\ d.w * img.height = d.h * img.width
        /\ (d.w * 10) % 8 = 0 /\ (d.h * 10) % 8 = 0
        /\ solidW % 10 = 0 /\ solidH % 10 = 0
        /\ (cw - solidW) % 2 = 0 /\ (ch - solidH) % 2 = 0
        /\ d.w % 2 = 0 /\ d.h % 2 = 0

\* the stored fit of an image: base scale the smaller of the two ratios of the
\* inner box to the image, image centre on the inner box's centre, scale 1 and
\* no rotation, the drawn image inside the inner box and reaching it on an axis
FitsInnerBox(img, fit) ==
    LET inner == InnerBox(fit.selectionRect)
        b == fit.baseScale
        t == fit.transform
        byWidth == Frac(inner.width, img.width)
        byHeight == Frac(inner.height, img.height)
        smaller == IF byWidth.n * byHeight.d <= byHeight.n * byWidth.d
                   THEN byWidth ELSE byHeight
    IN  /\ b.d > 0
        /\ Frac(b.n, b.d) = smaller
        /\ 2 * t.translateX = 2 * inner.x + inner.width
        /\ 2 * t.translateY = 2 * inner.y + inner.height
        /\ t.scaleX = ScaleOne /\ t.scaleY = ScaleOne /\ t.rotationDeg = 0
        \* left, right, top and bottom edges of the drawn image, times 2 * b.d
        /\ 2 * t.translateX * b.d - img.width * b.n >= 2 * inner.x * b.d
        /\ 2 * t.translateX * b.d + img.width * b.n
              <= 2 * (inner.x + inner.width) * b.d
        /\ 2 * t.translateY * b.d - img.height * b.n >= 2 * inner.y * b.d
        /\ 2 * t.translateY * b.d + img.height * b.n
              <= 2 * (inner.y + inner.height) * b.d
        /\ \/ img.width * b.n = inner.width * b.d
           \/ img.height * b.n = inner.height * b.d

\* C20: for every image size and canvas size whose fit falls on the length
\* grid, the default initialisation sets the base scale to the smaller of
\* inner-box width / image width and inner-box height / image height and puts
\* the image centre on the inner box's centre, so that at scale 1 and rotation
\* 0 the drawn image lies inside the inner box and touches its boundary on at
\* least one axis; Reset stores exactly that fit
DefaultFitInsideInnerBox ==
    imageRef # Null =>
      /\ \A c \in FitCanvases :
            OnGrid(imageRef, c.w, c.h) =>
              FitsInnerBox(imageRef,
                           initializeTextureTransform(imageRef, c.w, c.h))
      /\ ev.op = "reset" /\ OnGrid(imageRef, CanvasWidth, CanvasHeight) =>
            FitsInnerBox(imageRef,
                         [selectionRect |-> selectionRectRef,
                          baseScale |-> baseScaleRef,
                          transform |-> textureTransform])

\* Reset has refitted a tall image whose fit is on the grid for both canvases
RefittedTallImage ==
    /\ ev.op = "reset"
    /\ imageRef # Null
    /\ imageRef.height > imageRef.width
    /\ \A c \in FitCanvases : OnGrid(imageRef, c.w, c.h)
    /\ selectionRectRef.height > selectionRectRef.width

\* the inner box is the centred 80% inset of the selection rect
InnerIsCentredInset ==
    LET sel == selectionRectRef
        inner == InnerBox(sel)
    IN  /\ inner.width * 10 = sel.width * 8
        /\ inner.height * 10 = sel.height * 8
        /\ 2 * inner.x + inner.width = 2 * sel.x + sel.width
        /\ 2 * inner.y + inner.height = 2 * sel.y + sel.height

\* C21: no pointer-down, pointer-move or pointer-up of any gesture kind, and
\* no mouse move outside a gesture, changes the selection rect (outer box),
\* the inner box or the base scale, and the inner box is at all times the
\* centred 80% inset of the selection rect
PointerKeepsGeometry ==
    /\ []InnerIsCentredInset
    /\ [][ev'.op \in {"down", "move", "up", "idleMove"}
            => /\ selectionRectRef' = selectionRectRef
               /\ InnerBox(selectionRectRef') = InnerBox(selectionRectRef)
               /\ baseScaleRef' = baseScaleRef]_vars

\* a corner drag has changed both scales over a fitted selection rect
CornerDragScaled ==
    /\ ev.op = "move"
    /\ isDragging = "corner-br"
    /\ selectionRectRef.width > 0
    /\ textureTransform.scaleX # downAt.transform.scaleX
    /\ textureTransform.scaleY # downAt.transform.scaleY

\* the (mesh, material index, map type) triples of the scene that have a
\* bound image
BoundAtScan ==
    {c \in [mesh : Meshes, materialIndex : 0..1, mapType : MapTypes] :
        /\ c.materialIndex + 1 \in DOMAIN meshMaterial[c.mesh]
        /\ materialMaps[meshMaterial[c.mesh][c.materialIndex + 1]][c.mapType]
              # Null}

\* the triples the running version of the host turns into layers: all of
\* them in the second version, the colour map of print materials in the first
AcceptedAtScan ==
    {c \in BoundAtScan :
        \/ variant = "allKinds"
        \/ /\ c.mapType = "map"
           /\ IsPrint(meshMaterial[c.mesh][c.materialIndex + 1])}

SlotOf(layer) ==
    [mesh |-> layer.mesh, materialIndex |-> layer.materialIndex,
     mapType |-> layer.mapType]

\* where the traversal of the scene meets a triple
TraversalRank(scene, c) ==
    LET order == SceneMeshOrder(scene)
        meshAt == CHOOSE k \in DOMAIN order : order[k] = c.mesh
        kindAt == CHOOSE k \in DOMAIN MapTypeOrder : MapTypeOrder[k] = c.mapType
    IN  (meshAt * 2 + c.materialIndex) * Len(MapTypeOrder) + kindAt

\* right after a scan: one layer for each expected triple and no other, ids
\* 0, 1, 2, ... in traversal order, and a registry with exactly those ids,
\* each mapped to the texture bound to its triple
ScanGives(expected) ==
    ev.op = "modelLoaded" =>
        /\ \A c \in expected :
              Cardinality({i \in DOMAIN textureLayers :
                              SlotOf(textureLayers[i]) = c}) = 1
        /\ \A i \in DOMAIN textureLayers :
              /\ SlotOf(textureLayers[i]) \in expected
              /\ textureLayers[i].id = i - 1
              /\ \A j \in DOMAIN textureLayers :
                    i < j => TraversalRank(ev.e.scene, SlotOf(textureLayers[i]))
                             < TraversalRank(ev.e.scene, SlotOf(textureLayers[j]))
        /\ DOMAIN originalTexturesRef
              = {textureLayers[i].id : i \in DOMAIN textureLayers}
        /\ \A i \in DOMAIN textureLayers :
              LET l == textureLayers[i]
              IN  originalTexturesRef[l.id]
                    = materialMaps[meshMaterial[l.mesh][l.materialIndex + 1]]
                                  [l.mapType]

HandleOrder ==
    <<"corner-tl", "corner-tr", "corner-bl", "corner-br",
      "edge-top", "edge-bottom", "edge-left", "edge-right", "rotate", "pan">>

\* the canvas point (x, y) is in the region of the kind's handle; lengths
\* are doubled so that the middle of an edge needs no division
InRegion(kind, x, y, sel) ==
    LET right == sel.x + sel.width
        bottom == sel.y + sel.height
        within(a, b, r) == a - b < r /\ b - a < r
        alongX == within(2 * x, sel.x + right, sel.width)
        alongY == within(2 * y, sel.y + bottom, sel.height)
    IN  CASE kind = "corner-tl" ->
               within(x, sel.x, HandleSize) /\ within(y, sel.y, HandleSize)
          [] kind = "corner-tr" ->
               within(x, right, HandleSize) /\ within(y, sel.y, HandleSize)
          [] kind = "corner-bl" ->
               within(x, sel.x, HandleSize) /\ within(y, bottom, HandleSize)
          [] kind = "corner-br" ->
               within(x, right, HandleSize) /\ within(y, bottom, HandleSize)
          [] kind = "edge-top" -> alongX /\ within(y, sel.y, EdgeHandleSize)
          [] kind = "edge-bottom" -> alongX /\ within(y, bottom, EdgeHandleSize)
          [] kind = "edge-left" -> alongY /\ within(x, sel.x, EdgeHandleSize)
          [] kind = "edge-right" -> alongY /\ within(x, right, EdgeHandleSize)
          [] kind = "rotate" ->
               /\ within(2 * x, sel.x + right, 2 * RotateHandleReach)
               /\ within(y, sel.y - 30 * PX, RotateHandleReach)
          [] kind = "pan" -> TRUE

\* C23: the pointer-down hit test picks the gesture by first match in the
\* order corner handles, edge handles, rotation handle (30px above the top
\* edge), pan: the gesture started is the first kind in that order whose
\* region holds the point, so a point in a corner region and an edge band
\* starts the corner's scale, a point in an edge band and no corner region
\* that edge's scale, a point only in the rotation handle's region rotate, a
\* point in none of them pan; every pointer-down starts exactly one gesture
HitTestFirstMatch ==
    ev.op = "down" =>
        /\ isDragging \in Kinds
        /\ \E k \in DOMAIN HandleOrder :
              /\ isDragging = HandleOrder[k]
              /\ InRegion(HandleOrder[k], downAt.x, downAt.y, selectionRectRef)
              /\ \A j \in 1..(k - 1) :
                    ~InRegion(HandleOrder[j], downAt.x, downAt.y,
                              selectionRectRef)

\* a pointer-down inside the top-left corner's region and the top edge's band
\* has started the corner's gesture
DownOnCornerAndEdge ==
    /\ ev.op = "down"
    /\ isDragging = "corner-tl"
    /\ selectionRectRef.width > 0
    /\ InRegion("corner-tl", downAt.x, downAt.y, selectionRectRef)
    /\ InRegion("edge-top", downAt.x, downAt.y, selectionRectRef)

\* no gesture, or one kind with the pointer-start and the snapshot of its
\* pointer-down
OneGestureOrNone ==
    /\ isDragging \in Kinds \cup {NoDrag}
    /\ isDragging # NoDrag =>
          /\ downAt # Null
          /\ dragStart = [x |-> downAt.x, y |-> downAt.y,
                          transform |-> downAt.transform]

\* a mouse move outside a gesture changes nothing
IdleMoveChangesNothing ==
    ev'.op = "idleMove" =>
        /\ isDragging = NoDrag
        /\ UNCHANGED <<textureTransform, showTextureTransformModal,
                       testTextureRefs, managerTestTexturesRef>>
        /\ UNCHANGED <<isDragging, dragStart, geometryVars, sessionVars,
                       sceneVars, hostVars, registryVars, loadVars>>

\* a pointer-up ends the gesture and keeps the transform
UpReturnsToIdle ==
    ev'.op = "up" =>
        /\ isDragging # NoDrag
        /\ isDragging' = NoDrag
        /\ textureTransform' = textureTransform

\* the gesture kind is set by a pointer-down only, and only while idle
BeginsAtPointerDown ==
    (isDragging' # NoDrag /\ isDragging' # isDragging) =>
        /\ ev'.op = "down"
        /\ isDragging = NoDrag

\* C24: the gesture state is always either none or exactly one gesture kind
\* with its pointer-start and transform snapshot; a pointer-move while idle
\* changes nothing; a pointer-up always returns to idle and leaves the
\* transform as the last pointer-move set it; a gesture begins only from a
\* pointer-down, and only while idle
GestureLifecycle ==
    /\ []OneGestureOrNone
    /\ [][IdleMoveChangesNothing /\ UpReturnsToIdle
             /\ BeginsAtPointerDown]_vars

\* a gesture has ended on a transform that its moves had changed
ReleasedAfterChange ==
    /\ ev.op = "up"
    /\ isDragging = NoDrag
    /\ showTextureTransformModal
    /\ downAt # Null
    /\ textureTransform # downAt.transform

\* the fields of the transform a gesture kind may change
OwnFields(kind) ==
    IF kind = "pan" THEN {"translateX", "translateY"}
    ELSE IF kind \in {"corner-tl", "corner-tr", "corner-bl", "corner-br"}
    THEN {"scaleX", "scaleY"}
    ELSE IF kind \in {"edge-top", "edge-bottom"} THEN {"scaleY"}
    ELSE IF kind \in {"edge-left", "edge-right"} THEN {"scaleX"}
    ELSE {"rotationDeg"}

\* C25: after every pointer-move each gesture kind has changed only its own
\* fields relative to the gesture-start snapshot: pan only translateX and
\* translateY, a corner only scaleX and scaleY, the top and bottom edges only
\* scaleY, the left and right edges only scaleX, rotate only the rotation;
\* every other field has its snapshot value
MoveChangesOwnFields ==
    (ev.op = "move" /\ showTextureTransformModal) =>
        \A f \in DOMAIN textureTransform :
            f \notin OwnFields(isDragging)
                => textureTransform[f] = dragStart.transform[f]

\* a drag of the top edge has changed scaleY of a snapshot that was rotated
\* and stretched along x
TopEdgeDragged ==
    /\ ev.op = "move" /\ showTextureTransformModal
    /\ isDragging = "edge-top"
    /\ textureTransform.scaleY # dragStart.transform.scaleY
    /\ textureTransform.scaleX = 2 * ScaleOne
    /\ textureTransform.rotationDeg = 30

\* the canvas pixel under a mouse event: the offset into the element times
\* the ratio of the canvas's resolution to its size on screen
CanvasPixel(e) ==
    [x |-> ((e.clientX - BoundingClientRect.left) * CanvasWidth)
              \div BoundingClientRect.width,
     y |-> ((e.clientY - BoundingClientRect.top) * CanvasHeight)
              \div BoundingClientRect.height]

\* C26: during a pan, after every pointer-move the translation is the
\* gesture-start translation plus (current pointer position minus
\* pointer-start position) in canvas pixels, whatever moves came before; a
\* move back to the pointer-start restores the start translation
PanFollowsPointer ==
    (ev.op = "move" /\ showTextureTransformModal /\ isDragging = "pan") =>
        LET p == CanvasPixel(ev.e)
            snap == downAt.transform
        IN  /\ textureTransform.translateX
                  = snap.translateX + (p.x - downAt.x)
            /\ textureTransform.translateY
                  = snap.translateY + (p.y - downAt.y)
            /\ (p.x = downAt.x /\ p.y = downAt.y)
                  => textureTransform = snap

\* a pan has been elsewhere and is back where its first move went, away from
\* the pointer-start
PanRetraced ==
    /\ ev.op = "move" /\ showTextureTransformModal
    /\ isDragging = "pan"
    /\ firstMove # Null /\ firstMove.strayed /\ firstMove.e = ev.e
    /\ textureTransform = firstMove.transform
    /\ textureTransform.translateX # downAt.transform.translateX
    /\ textureTransform.translateY # downAt.transform.translateY

CornerKinds == {"corner-tl", "corner-tr", "corner-bl", "corner-br"}

\* d is the distance of (x, y) from the centre of the rect, rounded down to
\* the length grid
IsDistanceFromCentre(d, x, y, sel) ==
    LET dx == x - (sel.x + sel.width \div 2)
        dy == y - (sel.y + sel.height \div 2)
    IN  /\ d >= 0
        /\ d * d <= dx * dx + dy * dy
        /\ dx * dx + dy * dy < (d + 1) * (d + 1)

\* snapshot scale times cur / start, rounded down to the scale grid and
\* clamped to [0.1, 5.0]
ScaledByRatio(snap, cur, start) ==
    LET raw == (snap * cur) \div start
    IN  IF raw < MinScale THEN MinScale
        ELSE IF raw > MaxScale THEN MaxScale ELSE raw

\* C27: during a corner gesture whose start distance from the centre of the
\* selection rect is above 0.01, after every pointer-move scaleX and scaleY
\* are the snapshot's scaleX and scaleY times the one ratio r = current
\* distance / start distance from that centre, each clamped to [0.1, 5.0];
\* while neither is clamped they keep the snapshot's ratio (up to the
\* rounding of the scale grid)
CornerScalesByOneRatio ==
    (ev.op = "move" /\ showTextureTransformModal
        /\ isDragging \in CornerKinds) =>
        LET p == CanvasPixel(ev.e)
            snap == dragStart.transform
            sel == selectionRectRef
        IN  \E start \in {Distance(dragStart.x, dragStart.y,
                                    sel.x + sel.width \div 2,
                                    sel.y + sel.height \div 2)},
               cur \in {Distance(p.x, p.y, sel.x + sel.width \div 2,
                                  sel.y + sel.height \div 2)} :
                /\ IsDistanceFromCentre(start, dragStart.x, dragStart.y, sel)
                /\ IsDistanceFromCentre(cur, p.x, p.y, sel)
                /\ start * 100 > PX =>
                      /\ snap.scaleX > 0 =>
                            textureTransform.scaleX
                              = ScaledByRatio(snap.scaleX, cur, start)
                      /\ snap.scaleY > 0 =>
                            textureTransform.scaleY
                              = ScaledByRatio(snap.scaleY, cur, start)
                      /\ (/\ MinScale < textureTransform.scaleX
                           /\ textureTransform.scaleX < MaxScale
                           /\ MinScale < textureTransform.scaleY
                           /\ textureTransform.scaleY < MaxScale) =>
                            LET cross ==
                                  textureTransform.scaleX * snap.scaleY
                                    - textureTransform.scaleY * snap.scaleX
                            IN  0 - snap.scaleY < cross /\ cross < snap.scaleX

\* a corner drag outwards has scaled a 4 : 3 snapshot until scaleX stopped at
\* the upper limit while scaleY is still inside the range
CornerClampedOneAxis ==
    /\ ev.op = "move" /\ showTextureTransformModal
    /\ isDragging \in CornerKinds
    /\ dragStart.transform.scaleX = 4 * ScaleOne
    /\ dragStart.transform.scaleY = 3 * ScaleOne
    /\ textureTransform.scaleX = MaxScale
    /\ textureTransform.scaleY > dragStart.transform.scaleY
    /\ textureTransform.scaleY < MaxScale

\* C28: whenever an open of the tool restores a remembered transform, the
\* source image it loads is the image that was loaded when that transform
\* was confirmed, over any sequence of open, confirm, reset, close and reopen
RestoredWithConfirmedImage ==
    (ev.op = "imageLoaded" /\ showTextureTransformModal
        /\ lastAppliedTransformRef # Null /\ Remembered
        /\ textureTransform = confirmedAt.transform) =>
        imageRef.src = confirmedAt.image

\* a step inside one open of the modal, after an img.onload of that open has
\* stored a transform, that changes the transform
ChangesInitialisedTransform ==
    /\ showTextureTransformModal /\ showTextureTransformModal'
    /\ initialised
    /\ textureTransform' # textureTransform

\* C29 (as stated): between an open and the following close, once the first
\* image load of that open has completed, the transform changes only through
\* a pointer gesture or a reset; no later img.onload, from a re-run of the
\* open effect or from an image that arrives late, stores a transform again
InitialisedOncePerOpen ==
    [][ChangesInitialisedTransform => ev'.op \in {"move", "reset"}]_vars

\* the request that ran last had a model or a scene to export
RequestedWithTarget ==
    ev.op = "handleExport" /\ (ev.e.props.model \/ ev.e.props.scene)

\* C30: a request with neither model nor scene sets the error and leaves
\* isExporting false; any other request sets isExporting and clears the
\* error, isExporting stays true exactly while the export runs and is false
\* once it has ended, whether it succeeded, gave an empty result or threw,
\* and the error is then set exactly when it failed
ExportStateFollowsRun ==
    /\ isExporting <=> exportRun # Null
    /\ (ev.op = "handleExport" /\ ~RequestedWithTarget) =>
          (error = NoTargetError /\ ~isExporting)
    /\ (RequestedWithTarget /\ ev.e.early = Null) =>
          (isExporting /\ error = Null)
    /\ (RequestedWithTarget /\ ev.e.early # Null) =>
          (~isExporting /\ error = ExportFailedError(ev.e.early))
    /\ ev.op = "exportSettled" =>
          (~isExporting /\ (error # Null <=> ExportFails(ev.e.outcome)))

\* an export has started while the error of the one before was showing
ErrorClearedByNextExport ==
    /\ RequestedWithTarget /\ isExporting
    /\ ev.e.error # Null /\ ev.e.error # NoTargetError
    /\ error = Null

====
